---- MODULE Spec2Model ----
(***************************************************************************)
(* The handshake and synchronisation engine of the cursecord client        *)
(* (src/app.py).  Client "A" is modelled with its two threads: the         *)
(* background worker (_run_server_operations), step by step, and the       *)
(* foreground intents.  Its peer "B" runs the same handlers against the    *)
(* same untrusted relay, which stores, replays and tampers with signed     *)
(* envelopes; of the peer only the store and the posts are followed.       *)
(***************************************************************************)
EXTENDS Integers, Sequences, FiniteSets, TLC

\* ------------------------------------------------------------------ bounds
\* Exchange-key posts the relay accepts from one client.
MaxPriv == 2
\* Message posts the relay accepts from one client.
MaxMsgs == 1
\* Elements in one fetch response.
MaxBatch == 2

Clients == {"A", "B"}
\* The client whose threads are followed step by step.
Studied == "A"
None == "None"
\* initial_key = None: an exchange-key element that answers no offer.
NoKey == 0
Plaintexts == {"m"}

\* ------------------------------------------------------------------ crypto
\* X25519, modelled as Diffie-Hellman in the multiplicative group modulo a
\* prime: a private key is an exponent, its public key Generator^priv.
GroupMod == 101
Generator == 2

RECURSIVE Pow(_, _)
Pow(b, e) == IF e = 0 THEN 1 ELSE (b * Pow(b, e - 1)) % GroupMod

\* X25519PrivateKey.public_key()
PublicKey(priv) == Pow(Generator, priv)

\* X25519PrivateKey.exchange(peer_public_key)
Exchange(priv, pub) == Pow(pub, priv)

\* urlsafe_b64encode(shared_secret).decode(): the stored text of a key, and the
\* raw bytes a Fernet built from that text works with.
B64Encode(bytes) == <<"b64", bytes>>
B64Decode(text) == text[2]

\* Ed25519: an ideal signature is the pair of its signer and the signed data.
Sign(signer, data) == [signer |-> signer, data |-> data]
Verify(verification_key, signature, data) ==
    signature = [signer |-> verification_key, data |-> data]
\* Signature bytes that verify under no key.
Garbage(data) == [signer |-> None, data |-> data]

\* The i-th ephemeral private key a client generates (distinct for all clients
\* and all i, as fresh 32-byte keys are).
PrivOf(c, i) == IF c = "A" THEN 2 * i - 1 ELSE 2 * i

\* ------------------------------------------------------------------- state
VARIABLES
    connected,          \* App.connected
    pc,                 \* the worker's position in _run_server_operations
    contacts,           \* Contact rows: the verification keys of the contacts
    selected_contact,   \* App.selected_contact
    input,              \* message_entry.input
    output_log,         \* the entry the latest step added to the output log
    received_keys,      \* ReceivedExchangeKey rows, in insertion order
    sent_keys,          \* retained private keys of posted offers
    fernet_keys,        \* FernetKey rows, in insertion order
    sent_messages,      \* Message rows of posted messages
    received_messages,  \* Message rows of fetched messages
    unmatched_keys,     \* _key_response_handler: ids still to be answered
    new_contacts,       \* _new_contact_key_handler: contacts still to be offered
    posted_keys,        \* relay: exchange-key envelopes it accepted
    posted_msgs,        \* relay: message envelopes it accepted
    cycle,              \* history of the worker's current CONNECTED cycle
    fg,                 \* the foreground loop's position in its handler
    locals,             \* the local variables of each thread's handler
    database_write_lock,    \* App.database_write_lock: the thread that holds it
    message_log_write_lock, \* App.message_log_write_lock: the thread that holds it
    output_log_write_lock   \* App.output_log_write_lock: the thread that holds it

vars == <<connected, pc, contacts, selected_contact, input, output_log,
          received_keys, sent_keys, fernet_keys, sent_messages,
          received_messages, unmatched_keys, new_contacts, posted_keys,
          posted_msgs, cycle, fg, locals, database_write_lock,
          message_log_write_lock, output_log_write_lock>>

store == <<received_keys, sent_keys, fernet_keys, sent_messages, received_messages>>
relay == <<posted_keys, posted_msgs>>
ui == <<contacts, selected_contact, input>>
loops == <<unmatched_keys, new_contacts>>
log_locks == <<message_log_write_lock, output_log_write_lock>>
threads == <<fg, locals, database_write_lock, log_locks>>

\* The two threads of App.run.
Threads == {"worker", "foreground"}

\* output_log.add_item(title=...): the step's entry; NoEntry when it adds none.
NoEntry == None

\* A handler that holds nothing yet.
NoLocals ==
    [response |-> [exchange_keys |-> <<>>, messages |-> <<>>],
     contact |-> None, private_key |-> NoKey, timestamp |-> NoKey,
     plaintext |-> "", encrypted_text |-> None, title |-> None, then |-> None]

IdleCycle ==
    [nokeys |-> {}, offers |-> {}, timed_out |-> FALSE, failed |-> FALSE,
     malformed |-> FALSE, unstored |-> FALSE, unrecognized |-> FALSE]

Init ==
    /\ connected = FALSE
    /\ pc = "loop"
    /\ contacts = [c \in Clients |-> IF c = Studied THEN {} ELSE Clients \ {c}]
    /\ selected_contact = None
    /\ input = ""
    /\ output_log = NoEntry
    /\ received_keys = [c \in Clients |-> <<>>]
    /\ sent_keys = [c \in Clients |-> {}]
    /\ fernet_keys = [c \in Clients |-> <<>>]
    /\ sent_messages = [c \in Clients |-> <<>>]
    /\ received_messages = [c \in Clients |-> {}]
    /\ unmatched_keys = <<>>
    /\ new_contacts = <<>>
    /\ posted_keys = {}
    /\ posted_msgs = {}
    /\ cycle = IdleCycle
    /\ fg = "idle"
    /\ locals = [t \in Threads |-> NoLocals]
    /\ database_write_lock = None
    /\ message_log_write_lock = None
    /\ output_log_write_lock = None

\* ----------------------------------------------------------- wire elements
\* Signed data that covers the initial key of an exchange-key element as well:
\* the two keys, one after the other.
GetDataWithInitialKey(e) ==
    IF e.kind = "key" THEN e.exchange_key * GroupMod + e.initial_key
                      ELSE e.encrypted_text

\* _FetchResponseElement._get_data: the bytes the signature covers.
GetData(e) == IF e.kind = "key" THEN e.exchange_key ELSE e.encrypted_text

\* A verifier that accepts every signature.
IsValidAlways(e) == TRUE

\* _FetchResponseElement.is_valid: verify raising is caught and gives False.
IsValid(e) == Verify(e.sender_key, e.signature, GetData(e))

\* server.operations.post_exchange_key: the envelope a client signs and posts.
KeyEnvelope(c, recipient, exchange_key, initial_key, timestamp) ==
    [sender |-> c, recipient |-> recipient, exchange_key |-> exchange_key,
     initial_key |-> initial_key, signature |-> Sign(c, exchange_key),
     timestamp |-> timestamp]

\* server.operations.post_message: the envelope a client signs and posts.
MsgEnvelope(c, recipient, encrypted_text) ==
    [sender |-> c, recipient |-> recipient, encrypted_text |-> encrypted_text,
     signature |-> Sign(c, encrypted_text)]

\* Fernet(key).encrypt(plaintext): a token names its key, its plaintext and a
\* fresh initialisation vector.
Encrypt(key_text, plaintext, iv) ==
    [key |-> B64Decode(key_text), plaintext |-> plaintext, iv |-> iv]

\* -------------------------------------------------------------- the relay
KeyPostsOf(c) == {e \in posted_keys : e.sender = c}
MsgPostsOf(c) == {e \in posted_msgs : e.sender = c}

\* What can go wrong with a request: the relay rejects it with an error
\* status, it times out with the envelope lost, it times out with the envelope
\* accepted, it fails in any other way, or the relay answers and the store
\* write that follows fails.
Faults == {"status", "timeout", "timeout_accepted", "error", "store_failed"}

\* What a post can come to under the given faults. A relay that accepts no
\* more from this client rejects the post.
PostOutcomes(accepts, faults) ==
    IF accepts THEN {"ok"} \cup faults
    ELSE {"status"} \cup (faults \ {"timeout_accepted", "store_failed"})

\* The relay took the envelope.
Accepted(outcome) == outcome \in {"ok", "timeout_accepted", "store_failed"}

\* The client saw the request time out.
TimedOut(outcome) == outcome \in {"timeout", "timeout_accepted"}

\* The timestamp the relay gives the next exchange-key envelope it accepts,
\* and returns in its answer to the post.
Clock == Cardinality(posted_keys) + 1

\* The exchange-key elements the relay may hand to c: what c's contacts posted
\* to it, replayed at will, the same with the signature destroyed, and c's own
\* envelopes passed off as a contact's.
KeyElements(c) ==
    {[kind |-> "key", sender_key |-> e.sender, exchange_key |-> e.exchange_key,
      initial_key |-> e.initial_key, signature |-> e.signature,
      timestamp |-> e.timestamp] :
        e \in {x \in posted_keys : x.sender \in contacts[c] /\ x.recipient = c}}
    \cup
    {[kind |-> "key", sender_key |-> e.sender, exchange_key |-> e.exchange_key,
      initial_key |-> e.initial_key, signature |-> Garbage(e.exchange_key),
      timestamp |-> e.timestamp] :
        e \in {x \in posted_keys : x.sender \in contacts[c] /\ x.recipient = c}}
    \cup
    {[kind |-> "key", sender_key |-> e.recipient, exchange_key |-> e.exchange_key,
      initial_key |-> e.initial_key, signature |-> e.signature,
      timestamp |-> e.timestamp] :
        e \in {x \in posted_keys : x.sender = c /\ x.recipient \in contacts[c]}}

MsgElements(c) ==
    {[kind |-> "msg", sender_key |-> e.sender, encrypted_text |-> e.encrypted_text,
      signature |-> e.signature] :
        e \in {x \in posted_msgs : x.sender \in contacts[c] /\ x.recipient = c}}
    \cup
    {[kind |-> "msg", sender_key |-> e.sender, encrypted_text |-> e.encrypted_text,
      signature |-> Garbage(e.encrypted_text)] :
        e \in {x \in posted_msgs : x.sender \in contacts[c] /\ x.recipient = c}}
    \cup
    {[kind |-> "msg", sender_key |-> e.recipient, encrypted_text |-> e.encrypted_text,
      signature |-> e.signature] :
        e \in {x \in posted_msgs : x.sender = c /\ x.recipient \in contacts[c]}}

SeqsUpTo(S, n) == UNION {[1..k -> S] : k \in 0..n}

\* FetchResponseSchema.data: the two lists of one fetch response.
FetchResponses(c) ==
    {[exchange_keys |-> ks, messages |-> ms] :
        ks \in SeqsUpTo(KeyElements(c), MaxBatch),
        ms \in SeqsUpTo(MsgElements(c), MaxBatch)}

BoundedResponses(c) ==
    {r \in FetchResponses(c) : Len(r.exchange_keys) + Len(r.messages) <= MaxBatch}

\* The responses of one element, which is as it was posted to c. (A longer
\* response is stored as its elements are, one after the other.)
SingleResponses(c) ==
    {[exchange_keys |-> <<e>>, messages |-> <<>>] :
        e \in {x \in KeyElements(c) : IsValid(x)}}
    \cup
    {[exchange_keys |-> <<>>, messages |-> <<e>>] :
        e \in {x \in MsgElements(c) : IsValid(x)}}

\* An element as the relay's JSON carries it, one required field missing.
Strip(e, field) == [f \in DOMAIN e \ {field} |-> e[f]]

\* A list with its i-th element malformed.
Stripped(elements, i, field) ==
    [j \in DOMAIN elements |-> IF j = i THEN Strip(elements[j], field) ELSE elements[j]]

\* An element that carries nothing but its place in the response.
Junk == [kind |-> "key"]

\* The responses with a malformed element: a response with one element short
\* of a required field, and the response of one element with no field at all.
MalformedResponses(c) ==
    {[r EXCEPT !.exchange_keys = Stripped(@, i, "exchange_key")] :
        r \in {x \in BoundedResponses(c) : x.exchange_keys # <<>>}, i \in {1}}
    \cup
    {[r EXCEPT !.messages = Stripped(@, i, "signature")] :
        r \in {x \in BoundedResponses(c) : x.messages # <<>>}, i \in {1}}
    \cup
    {[exchange_keys |-> <<Junk>>, messages |-> <<>>]}

\* FetchResponseExchangeKey, FetchResponseMessage: the fields with no default.
RequiredFields(kind) ==
    IF kind = "key" THEN {"sender_key", "signature", "exchange_key"}
                    ELSE {"sender_key", "signature", "encrypted_text"}

\* An element pydantic builds a FetchResponseExchangeKey or FetchResponseMessage of.
WellFormed(e) == RequiredFields(e.kind) \subseteq DOMAIN e

\* FetchResponseSchema: the response validates when each element of its two
\* lists does.
Validates(response) ==
    /\ \A i \in DOMAIN response.exchange_keys : WellFormed(response.exchange_keys[i])
    /\ \A i \in DOMAIN response.messages : WellFormed(response.messages[i])

\* The well-formed elements of a response.
WellFormedPart(response) ==
    [exchange_keys |-> SelectSeq(response.exchange_keys, WellFormed),
     messages |-> SelectSeq(response.messages, WellFormed)]

\* -------------------------------------------------------- the session store
\* The tables of one client that a fetch can write.
Tables(c) ==
    [contacts |-> contacts[c], received_keys |-> received_keys[c],
     sent_keys |-> sent_keys[c], fernet_keys |-> fernet_keys[c],
     received_messages |-> received_messages[c]]

\* complete_offer that leaves the retained private key in place.
CompleteOfferKeepsKey(db, e) ==
    LET match == {p \in db.sent_keys : PublicKey(p.private_key) = e.initial_key}
    IN  IF match = {} THEN db
        ELSE LET p == CHOOSE x \in match : TRUE
             IN  [db EXCEPT
                    !.fernet_keys = Append(@,
                        [contact |-> p.contact,
                         encoded_bytes |-> B64Encode(Exchange(p.private_key, e.exchange_key)),
                         timestamp |-> e.timestamp,
                         role |-> "initiator",
                         offer |-> e.initial_key,
                         response |-> e.exchange_key])]

\* complete_offer: the retained private key whose public half the response
\* names is consumed and the shared secret stored as a session key.
CompleteOffer(db, e) ==
    LET match == {p \in db.sent_keys : PublicKey(p.private_key) = e.initial_key}
    IN  IF match = {} THEN db
        ELSE LET p == CHOOSE x \in match : TRUE
             IN  [db EXCEPT
                    !.sent_keys = @ \ {p},
                    !.fernet_keys = Append(@,
                        [contact |-> p.contact,
                         encoded_bytes |-> B64Encode(Exchange(p.private_key, e.exchange_key)),
                         timestamp |-> e.timestamp,
                         role |-> "initiator",
                         offer |-> e.initial_key,
                         response |-> e.exchange_key])]

\* An offer is persisted as an unmatched row unless the row is already there.
StoreOffer(db, e) ==
    IF \E i \in DOMAIN db.received_keys :
          /\ db.received_keys[i].contact = e.sender_key
          /\ db.received_keys[i].public_key = e.exchange_key
    THEN db
    ELSE [db EXCEPT !.received_keys = Append(@,
            [contact |-> e.sender_key, public_key |-> e.exchange_key,
             matched |-> FALSE])]

\* store_fetched_data that takes a response to no pending offer for an offer.
StoreElementAsOffer(db, e) ==
    IF ~IsValid(e) \/ e.sender_key \notin db.contacts THEN db
    ELSE IF e.kind = "msg"
         THEN [db EXCEPT !.received_messages = @ \cup
                 {[contact |-> e.sender_key, encrypted_text |-> e.encrypted_text]}]
    ELSE IF e.initial_key = NoKey THEN StoreOffer(db, e)
    ELSE IF CompleteOffer(db, e) = db THEN StoreOffer(db, e)
    ELSE CompleteOffer(db, e)

StoreElement(db, e) ==
    IF ~IsValid(e) \/ e.sender_key \notin db.contacts THEN db
    ELSE IF e.kind = "msg"
         THEN [db EXCEPT !.received_messages = @ \cup
                 {[contact |-> e.sender_key, encrypted_text |-> e.encrypted_text]}]
    ELSE IF e.initial_key = NoKey THEN StoreOffer(db, e)
    ELSE CompleteOffer(db, e)

RECURSIVE StoreElements(_, _)
StoreElements(db, elements) ==
    IF elements = <<>> THEN db
    ELSE StoreElements(StoreElement(db, Head(elements)), Tail(elements))

\* database.operations.store_fetched_data
StoreFetchedData(db, response) ==
    StoreElements(db, response.exchange_keys \o response.messages)

\* A signed response of a contact to an offer the store holds no pending key
\* of: the offer was completed before, or never made.
Unrecognized(db, e) ==
    /\ e.kind = "key"
    /\ IsValid(e)
    /\ e.sender_key \in db.contacts
    /\ e.initial_key # NoKey
    /\ \A p \in db.sent_keys : PublicKey(p.private_key) # e.initial_key

\* database.operations.get_contact_keys
GetContactKeys(c) == contacts[c]

RECURSIVE IdsWhere(_, _, _)
IdsWhere(rows, i, unmatched) ==
    IF i > Len(rows) THEN <<>>
    ELSE IF rows[i].matched # unmatched
         THEN <<i>> \o IdsWhere(rows, i + 1, unmatched)
         ELSE IdsWhere(rows, i + 1, unmatched)

\* database.operations.get_unmatched_keys: the ids of the rows not yet matched.
GetUnmatchedKeys(c) == IdsWhere(received_keys[c], 1, TRUE)

KeysOf(rows, contact) == SelectSeq(rows, LAMBDA k : k.contact = contact)

RECURSIVE SetToSeq(_)
SetToSeq(S) ==
    IF S = {} THEN <<>>
    ELSE LET x == CHOOSE y \in S : TRUE IN <<x>> \o SetToSeq(S \ {x})

\* A query that also leaves out the contacts an offer is pending to.
GetContactsWithoutKeysOrOffers(c) ==
    SetToSeq({k \in contacts[c] :
                /\ KeysOf(fernet_keys[c], k) = <<>>
                /\ \A p \in sent_keys[c] : p.contact # k})

\* database.operations.get_contacts_without_keys
GetContactsWithoutKeys(c) ==
    SetToSeq({k \in contacts[c] : KeysOf(fernet_keys[c], k) = <<>>})

\* The index of the row with the latest timestamp (the first such row).
Latest(rows) ==
    CHOOSE i \in DOMAIN rows :
        /\ \A j \in DOMAIN rows : rows[j].timestamp <= rows[i].timestamp
        /\ \A j \in DOMAIN rows : rows[j].timestamp = rows[i].timestamp => i <= j

RECURSIVE MostRecentFirst(_)
MostRecentFirst(rows) ==
    IF rows = <<>> THEN <<>>
    ELSE LET i == Latest(rows)
         IN  <<rows[i]>> \o
             MostRecentFirst(SubSeq(rows, 1, i - 1) \o SubSeq(rows, i + 1, Len(rows)))

\* ContactOutputSchema.fernet_keys: a contact's session keys, the most
\* recently derived first.
FernetKeysOf(c, contact) == MostRecentFirst(KeysOf(fernet_keys[c], contact))


\* ------------------------------------------------- what the handlers write
\* X25519PrivateKey.generate(): a key no state holds yet. A key whose post the
\* relay never accepted leaves no trace, so the next one may be the same.
GenerateKey(c) == PrivOf(c, Cardinality(KeyPostsOf(c)) + 1)

RelayAcceptsKey(c) == Cardinality(KeyPostsOf(c)) < MaxPriv
RelayAcceptsMsg(c) == Cardinality(MsgPostsOf(c)) < MaxMsgs

\* _fetch_handler, lines 103-105: the fetched response is stored.
FetchEffect(c, response) ==
    LET db == StoreFetchedData(Tables(c), response)
    IN  /\ received_keys' = [received_keys EXCEPT ![c] = db.received_keys]
        /\ sent_keys' = [sent_keys EXCEPT ![c] = db.sent_keys]
        /\ fernet_keys' = [fernet_keys EXCEPT ![c] = db.fernet_keys]
        /\ received_messages' = [received_messages EXCEPT ![c] = db.received_messages]

\* The exchange made with the responder's own public key instead of the offer's.
SharedSecretOwnKey(private_key, key) == Exchange(private_key, PublicKey(private_key))

\* _key_response_handler, line 120: the secret shared with the offer's key.
SharedSecret(private_key, key) == Exchange(private_key, key.public_key)

\* An update that sets the flag of every row to "is the answered row".
MarkOnlyThis(rows, id) == [i \in DOMAIN rows |-> [rows[i] EXCEPT !.matched = (i = id)]]

\* A write that stores the key and leaves the row as it was.
MarkNothing(rows, id) == rows

\* _key_response_handler, lines 140-141: the answered row is marked.
MarkMatched(rows, id) == [rows EXCEPT ![id].matched = TRUE]

\* A handler that marks the row although the relay rejected the response.
RespondEffectMarksRejected(c, id, outcome) ==
    LET key == received_keys[c][id]
        private_key == GenerateKey(c)
        encoded_shared_secret == B64Encode(SharedSecret(private_key, key))
        envelope == KeyEnvelope(c, key.contact, PublicKey(private_key),
                                key.public_key, Clock)
    IN  /\ posted_keys' = IF Accepted(outcome) THEN posted_keys \cup {envelope}
                                               ELSE posted_keys
        /\ IF outcome = "ok"
           THEN /\ received_keys' = [received_keys EXCEPT ![c] = MarkMatched(@, id)]
                /\ fernet_keys' = [fernet_keys EXCEPT ![c] = Append(@,
                        [contact |-> key.contact,
                         encoded_bytes |-> encoded_shared_secret,
                         timestamp |-> envelope.timestamp,
                         role |-> "responder",
                         offer |-> key.public_key,
                         response |-> PublicKey(private_key)])]
           ELSE IF outcome = "status"
           THEN /\ received_keys' = [received_keys EXCEPT ![c] = MarkMatched(@, id)]
                /\ UNCHANGED fernet_keys
           ELSE UNCHANGED <<received_keys, fernet_keys>>

\* _key_response_handler, lines 119-149: the answer to one unmatched row is
\* posted and, once the relay has answered, the row marked and the key stored.
RespondEffect(c, id, outcome) ==
    LET key == received_keys[c][id]
        private_key == GenerateKey(c)
        encoded_shared_secret == B64Encode(SharedSecret(private_key, key))
        envelope == KeyEnvelope(c, key.contact, PublicKey(private_key),
                                key.public_key, Clock)
    IN  /\ posted_keys' = IF Accepted(outcome) THEN posted_keys \cup {envelope}
                                               ELSE posted_keys
        /\ IF outcome = "ok"
           THEN /\ received_keys' = [received_keys EXCEPT ![c] = MarkMatched(@, id)]
                /\ fernet_keys' = [fernet_keys EXCEPT ![c] = Append(@,
                        [contact |-> key.contact,
                         encoded_bytes |-> encoded_shared_secret,
                         timestamp |-> envelope.timestamp,
                         role |-> "responder",
                         offer |-> key.public_key,
                         response |-> PublicKey(private_key)])]
           ELSE UNCHANGED <<received_keys, fernet_keys>>

\* An offer whose private key is not retained.
OfferEffectForgetsKey(c, contact, outcome) ==
    LET envelope == KeyEnvelope(c, contact, PublicKey(GenerateKey(c)), NoKey, Clock)
    IN  /\ posted_keys' = IF Accepted(outcome) THEN posted_keys \cup {envelope}
                                               ELSE posted_keys
        /\ UNCHANGED sent_keys

\* _post_exchange_key, lines 266-279: a fresh offer is posted and, once the
\* relay has answered, its private key retained.
OfferEffect(c, contact, outcome) ==
    LET private_exchange_key == GenerateKey(c)
        envelope == KeyEnvelope(c, contact, PublicKey(private_exchange_key),
                                NoKey, Clock)
    IN  /\ posted_keys' = IF Accepted(outcome) THEN posted_keys \cup {envelope}
                                               ELSE posted_keys
        /\ sent_keys' =
                IF outcome = "ok"
                THEN [sent_keys EXCEPT ![c] = @ \cup
                        {[contact |-> contact, private_key |-> private_exchange_key]}]
                ELSE sent_keys

\* The last key of the list instead of the first.
SendingKeyLast(keys) == keys[Len(keys)]

\* _post_message, line 328: the key a message is encrypted with.
SendingKey(keys) == keys[1]

\* A send that stores its row whatever the relay answered.
SendEffectStoresAlways(c, contact, plaintext, outcome) ==
    LET fernet_key == SendingKey(FernetKeysOf(c, contact)).encoded_bytes
        token == Encrypt(fernet_key, plaintext, Cardinality(MsgPostsOf(c)) + 1)
        envelope == MsgEnvelope(c, contact, token)
    IN  /\ posted_msgs' = IF Accepted(outcome) THEN posted_msgs \cup {envelope}
                                               ELSE posted_msgs
        /\ sent_messages' = [sent_messages EXCEPT ![c] = Append(@,
                        [contact |-> contact, plaintext |-> plaintext,
                         encrypted_text |-> token])]

\* _post_message, lines 328-343: the message is encrypted and posted and, once
\* the relay has answered, stored.
SendEffect(c, contact, plaintext, outcome) ==
    LET fernet_key == SendingKey(FernetKeysOf(c, contact)).encoded_bytes
        token == Encrypt(fernet_key, plaintext, Cardinality(MsgPostsOf(c)) + 1)
        envelope == MsgEnvelope(c, contact, token)
    IN  /\ posted_msgs' = IF Accepted(outcome) THEN posted_msgs \cup {envelope}
                                               ELSE posted_msgs
        /\ sent_messages' =
                IF outcome = "ok"
                THEN [sent_messages EXCEPT ![c] = Append(@,
                        [contact |-> contact, plaintext |-> plaintext,
                         encrypted_text |-> token])]
                ELSE sent_messages

\* -------------------------------------------------------------- the worker
\* _ping_server, and the `continue` that follows it
PingServer ==
    /\ pc = "loop"
    /\ ~connected
    /\ \E ok \in BOOLEAN :
        /\ connected' = ok
        /\ output_log' = IF ok THEN "Connection Established" ELSE NoEntry
    /\ UNCHANGED <<pc, ui, store, loops, relay, cycle>>
    /\ UNCHANGED threads

\* A worker without the `except Exception` clause: only a timeout is caught.
AfterExceptionTimeoutOnly(exc) == IF exc = "timeout" THEN "sleep" ELSE "terminated"

\* _run_server_operations, the two except clauses: where the worker goes on
\* after an exception left the cycle.
AfterException(exc) == "sleep"

\* A worker that takes every exception for a lost connection.
RaisedAlwaysDemotes(exc, base) ==
    /\ connected' = FALSE
    /\ output_log' = IF exc = "timeout" THEN "Server Connection Error"
                                        ELSE "Unhandled Server Error"
    /\ pc' = AfterException(exc)
    /\ cycle' = [base EXCEPT !.timed_out = (exc = "timeout"), !.failed = TRUE]
    /\ unmatched_keys' = <<>>
    /\ new_contacts' = <<>>

\* _run_server_operations, lines 166-180: an exception leaves the cycle.
Raised(exc, base) ==
    /\ connected' = (exc # "timeout")
    /\ output_log' = IF exc = "timeout" THEN "Server Connection Error"
                                        ELSE "Unhandled Server Error"
    /\ pc' = AfterException(exc)
    /\ cycle' = [base EXCEPT !.timed_out = (exc = "timeout"), !.failed = TRUE]
    /\ unmatched_keys' = <<>>
    /\ new_contacts' = <<>>

\* A worker that goes from the fetch to the offers to new contacts.
AfterFetchSkipsResponses == "auto"

\* _run_server_operations, lines 163-164: _key_response_handler is called when
\* _fetch_handler has returned.
AfterFetch == "respond"

\* The history of a cycle that starts now: the contacts without a session key.
StartedCycle ==
    [IdleCycle EXCEPT !.nokeys =
        {k \in contacts[Studied] : KeysOf(fernet_keys[Studied], k) = <<>>}]

\* _fetch_handler with no contact: it returns at once.
FetchReturn ==
    /\ GetContactKeys(Studied) = {}
    /\ pc' = AfterFetch
    /\ cycle' = StartedCycle
    /\ output_log' = NoEntry
    /\ UNCHANGED <<connected, ui, store, loops, relay>>
    /\ UNCHANGED threads

\* The history of a cycle whose fetch response did not validate: whether the
\* store would have taken any of its well-formed elements.
MalformedCycle(response) ==
    [StartedCycle EXCEPT
        !.malformed = TRUE,
        !.unstored = StoreFetchedData(Tables(Studied), WellFormedPart(response))
                        # Tables(Studied)]

\* _fetch_handler, lines 103-107: the response fetch_data has validated is
\* stored; the ValidationError of a response that does not validate leaves
\* the handler as an exception.
FetchValidated(response) ==
    IF Validates(response)
    THEN /\ FetchEffect(Studied, response)
         /\ pc' = AfterFetch
         /\ cycle' = [StartedCycle EXCEPT !.unrecognized =
                        /\ response.messages = <<>>
                        /\ response.exchange_keys # <<>>
                        /\ \A i \in DOMAIN response.exchange_keys :
                             Unrecognized(Tables(Studied), response.exchange_keys[i])]
         /\ output_log' = NoEntry
         /\ UNCHANGED <<connected, sent_messages, loops>>
    ELSE /\ Raised("error", MalformedCycle(response))
         /\ UNCHANGED store

\* _fetch_handler with contacts: the response is stored and the message log
\* redrawn; an error status is logged; a timeout, a response with a malformed
\* element ("error") or a failing store write leaves the handler as an
\* exception.
FetchRequest(faults) ==
    /\ GetContactKeys(Studied) # {}
    /\ \E outcome \in {"ok"} \cup (faults \ {"timeout_accepted"}) :
        IF outcome = "ok"
        THEN \E response \in BoundedResponses(Studied) : FetchValidated(response)
        ELSE IF outcome = "error"
        THEN \E response \in MalformedResponses(Studied) : FetchValidated(response)
        ELSE IF outcome = "status"
        THEN /\ pc' = AfterFetch
             /\ cycle' = [StartedCycle EXCEPT !.failed = TRUE]
             /\ output_log' = "Bad Response"
             /\ UNCHANGED <<connected, store, loops>>
        ELSE /\ Raised(IF outcome = "timeout" THEN "timeout" ELSE "error", StartedCycle)
             /\ UNCHANGED store
    /\ UNCHANGED <<ui, relay>>
    /\ UNCHANGED threads

FetchHandler(faults) ==
    /\ pc = "loop"
    /\ connected
    /\ \/ FetchReturn
       \/ FetchRequest(faults)

\* Every row, matched or not.
AllKeys == [i \in DOMAIN received_keys[Studied] |-> i]

\* _key_response_handler, line 117: the rows the loop is to answer.
KeysToAnswer == GetUnmatchedKeys(Studied)

\* _key_response_handler, line 117: the rows to answer are read once.
KeyResponseStart ==
    /\ pc = "respond"
    /\ unmatched_keys' = KeysToAnswer
    /\ pc' = IF KeysToAnswer = <<>> THEN "auto" ELSE "respond_loop"
    /\ output_log' = NoEntry
    /\ UNCHANGED <<connected, ui, store, new_contacts, relay, cycle>>
    /\ UNCHANGED threads

\* A handler that leaves its loop at the first rejected post.
AfterRejectedBreaks(keys) == <<>>

\* _key_response_handler, line 137: `continue`, the rows still to be answered
\* once a post has been rejected with an error status.
AfterRejected(keys) == Tail(keys)

\* _key_response_handler: one turn of the loop over the unmatched rows.
KeyResponseIter(faults) ==
    /\ pc = "respond_loop"
    /\ \E outcome \in PostOutcomes(RelayAcceptsKey(Studied), faults) :
        /\ RespondEffect(Studied, Head(unmatched_keys), outcome)
        /\ IF TimedOut(outcome) THEN Raised("timeout", cycle)
           ELSE IF outcome \in {"error", "store_failed"} THEN Raised("error", cycle)
           ELSE IF outcome = "status"
           THEN /\ unmatched_keys' = AfterRejected(unmatched_keys)
                /\ pc' = IF AfterRejected(unmatched_keys) = <<>> THEN "auto"
                                                                ELSE "respond_loop"
                /\ output_log' = "Bad Response"
                /\ cycle' = [cycle EXCEPT !.failed = TRUE]
                /\ UNCHANGED <<connected, new_contacts>>
           ELSE /\ unmatched_keys' = Tail(unmatched_keys)
                /\ pc' = IF Tail(unmatched_keys) = <<>> THEN "auto" ELSE "respond_loop"
                /\ output_log' = NoEntry
                /\ UNCHANGED <<connected, new_contacts, cycle>>
    /\ UNCHANGED <<ui, sent_keys, sent_messages, received_messages, posted_msgs>>
    /\ UNCHANGED threads

\* _new_contact_key_handler, line 152: the contacts to offer to are read once.
NewContactStart ==
    /\ pc = "auto"
    /\ new_contacts' = GetContactsWithoutKeys(Studied)
    /\ pc' = IF GetContactsWithoutKeys(Studied) = <<>> THEN "sleep" ELSE "auto_loop"
    /\ output_log' = NoEntry
    /\ UNCHANGED <<connected, ui, store, unmatched_keys, relay, cycle>>
    /\ UNCHANGED threads

\* _post_exchange_key: one call, as the relay and the store answer it.
PostExchangeKey(contact, outcome) ==
    IF ~connected
    THEN /\ output_log' = "Exchange Key Post Error - No Connection"
         /\ UNCHANGED <<posted_keys, sent_keys>>
    ELSE /\ OfferEffect(Studied, contact, outcome)
         /\ output_log' =
                CASE outcome = "ok" -> "Exchange Key Post Success"
                  [] TimedOut(outcome) -> "Exchange Key Post Error"
                  [] outcome = "status" -> "Exchange Key Post Error - Bad Response"
                  [] OTHER -> "Exchange Key Post Error - Unhandled Exception"

\* _new_contact_key_handler: one turn of the loop over the new contacts.
NewContactIter(faults) ==
    /\ pc = "auto_loop"
    /\ LET contact == Head(new_contacts)
           offer == [to |-> contact, key |-> PublicKey(GenerateKey(Studied))]
       IN  \E outcome \in PostOutcomes(RelayAcceptsKey(Studied), faults) :
            /\ PostExchangeKey(contact, outcome)
            /\ cycle' = [cycle EXCEPT
                    !.offers = IF connected /\ Accepted(outcome)
                               THEN @ \cup {offer} ELSE @,
                    !.timed_out = @ \/ TimedOut(outcome),
                    !.failed = @ \/ outcome # "ok"]
    /\ new_contacts' = Tail(new_contacts)
    /\ pc' = IF Tail(new_contacts) = <<>> THEN "sleep" ELSE "auto_loop"
    /\ UNCHANGED <<connected, ui, received_keys, fernet_keys, sent_messages,
                   received_messages, unmatched_keys, posted_msgs>>
    /\ UNCHANGED threads

\* _run_server_operations, line 181: time.sleep(fetch_interval)
Sleep ==
    /\ pc = "sleep"
    /\ pc' = "loop"
    /\ cycle' = IdleCycle
    /\ output_log' = NoEntry
    /\ UNCHANGED <<connected, ui, store, loops, relay>>
    /\ UNCHANGED threads

\* _run_server_operations: the next step of the background worker.
Worker(faults) ==
    \/ PingServer
    \/ FetchHandler(faults)
    \/ KeyResponseStart
    \/ KeyResponseIter(faults)
    \/ NewContactStart
    \/ NewContactIter(faults)
    \/ Sleep

\* ---------------------------------------------------------- the foreground
\* _add_contact: the prompt is submitted with the key of a client that is no
\* contact yet; the store write may fail.
AddContact ==
    /\ \E k \in Clients \ ({Studied} \cup contacts[Studied]), store_ok \in BOOLEAN :
        IF store_ok
        THEN /\ contacts' = [contacts EXCEPT ![Studied] = @ \cup {k}]
             /\ output_log' = "Add Contact Success"
             /\ selected_contact' = IF selected_contact = None THEN k
                                                               ELSE selected_contact
        ELSE /\ output_log' = "Add Contact Error"
             /\ UNCHANGED <<contacts, selected_contact>>
    /\ UNCHANGED <<connected, pc, input, store, loops, relay, cycle>>
    /\ UNCHANGED threads

\* _loop_iteration, State.SEND_EXCHANGE_KEY: the user sends an offer to the
\* contact the menu is on.
SendExchangeKey(faults) ==
    /\ \E current_contact \in contacts[Studied] :
        \E outcome \in PostOutcomes(RelayAcceptsKey(Studied), faults) :
            PostExchangeKey(current_contact, outcome)
    /\ UNCHANGED <<connected, pc, ui, received_keys, fernet_keys, sent_messages,
                   received_messages, loops, posted_msgs, cycle>>
    /\ UNCHANGED threads

\* message_entry.handle_key: the user types a message.
TypeMessage ==
    /\ fg = "idle"
    /\ input = ""
    /\ \E text \in Plaintexts : input' = text
    /\ output_log' = NoEntry
    /\ UNCHANGED <<connected, pc, contacts, selected_contact, store, loops, relay, cycle>>
    /\ UNCHANGED threads

\* A refusal that clears the entry box.
RefusedInputCleared(text) == ""

\* _post_message, lines 376-385: what a refused send leaves in the entry box.
RefusedInput(text) == text

\* _post_message
PostMessage(faults) ==
    /\ selected_contact # None
    /\ input # ""
    /\ IF ~connected
       THEN /\ output_log' = "Message Post Error - No Connection"
            /\ UNCHANGED <<input, sent_messages, posted_msgs>>
       ELSE IF FernetKeysOf(Studied, selected_contact) # <<>>
       THEN \E outcome \in PostOutcomes(RelayAcceptsMsg(Studied), faults) :
                /\ SendEffect(Studied, selected_contact, input, outcome)
                /\ input' = IF outcome = "ok" THEN "" ELSE input
                /\ output_log' =
                      CASE outcome = "ok" -> "Message Post Success"
                        [] TimedOut(outcome) -> "Message Post Error - Request Timed Out"
                        [] outcome = "status" -> "Message Post Error - Bad Response"
                        [] OTHER -> "Message Post Error - Unhandled Exception"
       ELSE /\ output_log' = "Message Post Error - No Encryption Key"
            /\ input' = RefusedInput(input)
            /\ UNCHANGED <<sent_messages, posted_msgs>>
    /\ UNCHANGED <<connected, pc, contacts, selected_contact, received_keys, sent_keys,
                   fernet_keys, received_messages, loops, posted_keys, cycle>>
    /\ UNCHANGED threads

\* ---------------------------------------------------------------- the peer
control == <<connected, pc, ui, output_log, loops, cycle>>

\* _fetch_handler at the peer
PeerFetch(p) ==
    /\ \E response \in SingleResponses(p) : FetchEffect(p, response)
    /\ UNCHANGED <<control, sent_messages, relay>>
    /\ UNCHANGED threads

\* _key_response_handler at the peer: one turn of its loop
PeerRespond(p, faults) ==
    /\ \E id \in DOMAIN received_keys[p] :
        /\ ~received_keys[p][id].matched
        /\ \E outcome \in {o \in PostOutcomes(RelayAcceptsKey(p), faults) : Accepted(o)} :
                RespondEffect(p, id, outcome)
    /\ UNCHANGED <<control, sent_keys, sent_messages, received_messages, posted_msgs>>
    /\ UNCHANGED threads

\* _new_contact_key_handler at the peer: one turn of its loop
PeerOffer(p, faults) ==
    /\ \E contact \in {k \in contacts[p] : KeysOf(fernet_keys[p], k) = <<>>} :
        \E outcome \in {o \in PostOutcomes(RelayAcceptsKey(p), faults) : Accepted(o)} :
                OfferEffect(p, contact, outcome)
    /\ UNCHANGED <<control, received_keys, fernet_keys, sent_messages,
                   received_messages, posted_msgs>>
    /\ UNCHANGED threads

\* _post_message at the peer
PeerPostMessage(p, faults) ==
    /\ \E contact \in {k \in contacts[p] : KeysOf(fernet_keys[p], k) # <<>>},
          plaintext \in Plaintexts :
        \E outcome \in {o \in PostOutcomes(RelayAcceptsMsg(p), faults) : Accepted(o)} :
                SendEffect(p, contact, plaintext, outcome)
    /\ UNCHANGED <<control, received_keys, sent_keys, fernet_keys,
                   received_messages, posted_keys>>
    /\ UNCHANGED threads

\* ------------------------------------------- the two threads, step by step
\* The handlers again, with every network call and every store write a step
\* of its own, so that the steps of the two threads interleave as the
\* statements of the code do.

\* A lock taken without waiting for it.
AcquireAnyway(thread) == database_write_lock' = thread

\* `with self.database_write_lock:` is entered: the thread waits for the lock.
Acquire(thread) ==
    /\ database_write_lock = None
    /\ database_write_lock' = thread

\* A thread that leaves the block and keeps the lock of the store.
ReleaseKept(thread) ==
    /\ database_write_lock = thread
    /\ UNCHANGED database_write_lock

\* `with self.database_write_lock:` is left.
Release(thread) ==
    /\ database_write_lock = thread
    /\ database_write_lock' = None

Hold(thread, values) == locals' = [locals EXCEPT ![thread] = values]
Drop(thread) == locals' = [locals EXCEPT ![thread] = NoLocals]

\* The position at which a thread holds the lock it waited for.
WritePosition ==
    [fetch_lock |-> "fetch_write", respond_lock |-> "respond_write",
     offer_lock |-> "offer_write", add_lock |-> "add_write",
     key_lock |-> "key_write", msg_lock |-> "msg_write"]

\* What the relay hands out in one fetch: nothing, or one element as posted.
ThreadResponses(c) == {NoLocals.response} \cup SingleResponses(c)

\* _fetch_handler, lines 99-103: the request.
FetchCall(faults) ==
    /\ pc = "loop"
    /\ connected
    /\ IF GetContactKeys(Studied) = {}
       THEN /\ pc' = AfterFetch
            /\ cycle' = StartedCycle
            /\ output_log' = NoEntry
            /\ UNCHANGED <<connected, loops, locals>>
       ELSE \E outcome \in {"ok"} \cup (faults \cap {"status", "timeout", "error"}) :
            IF outcome = "ok"
            THEN /\ \E response \in ThreadResponses(Studied) :
                        Hold("worker", [NoLocals EXCEPT !.response = response])
                 /\ pc' = "fetch_lock"
                 /\ cycle' = StartedCycle
                 /\ output_log' = NoEntry
                 /\ UNCHANGED <<connected, loops>>
            ELSE IF outcome = "status"
            THEN /\ pc' = AfterFetch
                 /\ cycle' = [StartedCycle EXCEPT !.failed = TRUE]
                 /\ output_log' = "Bad Response"
                 /\ UNCHANGED <<connected, loops, locals>>
            ELSE /\ Raised(outcome, StartedCycle)
                 /\ UNCHANGED locals
    /\ UNCHANGED <<ui, store, relay, fg, database_write_lock>>
    /\ UNCHANGED log_locks

\* The worker enters a `with self.database_write_lock:` block.
WorkerAcquire ==
    /\ pc \in DOMAIN WritePosition
    /\ Acquire("worker")
    /\ pc' = WritePosition[pc]
    /\ output_log' = NoEntry
    /\ UNCHANGED <<connected, ui, store, loops, relay, cycle, fg, locals>>
    /\ UNCHANGED log_locks

\* _fetch_handler, lines 104-107: the write, under the lock.
FetchStore(faults) ==
    /\ pc = "fetch_write"
    /\ Release("worker")
    /\ Drop("worker")
    /\ \E store_ok \in {TRUE} \cup {FALSE : f \in faults \cap {"store_failed"}} :
        IF store_ok
        THEN /\ FetchEffect(Studied, locals["worker"].response)
             /\ pc' = AfterFetch
             /\ output_log' = NoEntry
             /\ UNCHANGED <<connected, loops, cycle>>
        ELSE /\ Raised("error", cycle)
             /\ UNCHANGED <<received_keys, sent_keys, fernet_keys, received_messages>>
    /\ UNCHANGED <<ui, sent_messages, relay, fg>>
    /\ UNCHANGED log_locks

\* _key_response_handler, lines 119-137: one response is posted.
KeyResponsePost(faults) ==
    /\ pc = "respond_loop"
    /\ LET key == received_keys[Studied][Head(unmatched_keys)]
           private_key == GenerateKey(Studied)
           envelope == KeyEnvelope(Studied, key.contact, PublicKey(private_key),
                                   key.public_key, Clock)
       IN  \E outcome \in PostOutcomes(RelayAcceptsKey(Studied), faults \ {"store_failed"}) :
            /\ posted_keys' = IF Accepted(outcome) THEN posted_keys \cup {envelope}
                                                   ELSE posted_keys
            /\ IF outcome = "ok"
               THEN /\ Hold("worker", [NoLocals EXCEPT !.private_key = private_key,
                                                       !.timestamp = envelope.timestamp])
                    /\ pc' = "respond_lock"
                    /\ output_log' = NoEntry
                    /\ UNCHANGED <<connected, loops, cycle>>
               ELSE IF outcome = "status"
               THEN /\ unmatched_keys' = AfterRejected(unmatched_keys)
                    /\ pc' = IF AfterRejected(unmatched_keys) = <<>> THEN "auto"
                                                                    ELSE "respond_loop"
                    /\ output_log' = "Bad Response"
                    /\ cycle' = [cycle EXCEPT !.failed = TRUE]
                    /\ UNCHANGED <<connected, new_contacts, locals>>
               ELSE /\ Raised(IF TimedOut(outcome) THEN "timeout" ELSE "error", cycle)
                    /\ UNCHANGED locals
    /\ UNCHANGED <<ui, store, posted_msgs, fg, database_write_lock>>
    /\ UNCHANGED log_locks

\* _key_response_handler, lines 138-149: the row is marked and the key stored,
\* under the lock.
KeyResponseStore(faults) ==
    /\ pc = "respond_write"
    /\ Release("worker")
    /\ Drop("worker")
    /\ LET id == Head(unmatched_keys)
           key == received_keys[Studied][id]
           private_key == locals["worker"].private_key
       IN  \E store_ok \in {TRUE} \cup {FALSE : f \in faults \cap {"store_failed"}} :
            IF store_ok
            THEN /\ received_keys' = [received_keys EXCEPT ![Studied] = MarkMatched(@, id)]
                 /\ fernet_keys' = [fernet_keys EXCEPT ![Studied] = Append(@,
                        [contact |-> key.contact,
                         encoded_bytes |-> B64Encode(SharedSecret(private_key, key)),
                         timestamp |-> locals["worker"].timestamp,
                         role |-> "responder",
                         offer |-> key.public_key,
                         response |-> PublicKey(private_key)])]
                 /\ unmatched_keys' = Tail(unmatched_keys)
                 /\ pc' = IF Tail(unmatched_keys) = <<>> THEN "auto" ELSE "respond_loop"
                 /\ output_log' = NoEntry
                 /\ UNCHANGED <<connected, new_contacts, cycle>>
            ELSE /\ Raised("error", cycle)
                 /\ UNCHANGED <<received_keys, fernet_keys>>
    /\ UNCHANGED <<ui, sent_keys, sent_messages, received_messages, relay, fg>>
    /\ UNCHANGED log_locks

\* _post_exchange_key, lines 286-306: the entry a failed post is logged with.
PostErrorTitle(outcome) ==
    CASE TimedOut(outcome) -> "Exchange Key Post Error"
      [] outcome = "status" -> "Exchange Key Post Error - Bad Response"
      [] OTHER -> "Exchange Key Post Error - Unhandled Exception"

\* _post_exchange_key, lines 266-273, called by the worker: the offer is posted.
NewContactPost(faults) ==
    /\ pc = "auto_loop"
    /\ LET contact == Head(new_contacts)
           private_exchange_key == GenerateKey(Studied)
           envelope == KeyEnvelope(Studied, contact, PublicKey(private_exchange_key),
                                   NoKey, Clock)
           offer == [to |-> contact, key |-> PublicKey(private_exchange_key)]
       IN  \E outcome \in PostOutcomes(RelayAcceptsKey(Studied), faults \ {"store_failed"}) :
            /\ posted_keys' = IF Accepted(outcome) THEN posted_keys \cup {envelope}
                                                   ELSE posted_keys
            /\ cycle' = [cycle EXCEPT
                    !.offers = IF Accepted(outcome) THEN @ \cup {offer} ELSE @,
                    !.timed_out = @ \/ TimedOut(outcome),
                    !.failed = @ \/ outcome # "ok"]
            /\ IF outcome = "ok"
               THEN /\ Hold("worker", [NoLocals EXCEPT !.contact = contact,
                                                       !.private_key = private_exchange_key])
                    /\ pc' = "offer_lock"
                    /\ output_log' = NoEntry
                    /\ UNCHANGED new_contacts
               ELSE /\ new_contacts' = Tail(new_contacts)
                    /\ pc' = IF Tail(new_contacts) = <<>> THEN "sleep" ELSE "auto_loop"
                    /\ output_log' = PostErrorTitle(outcome)
                    /\ UNCHANGED locals
    /\ UNCHANGED <<connected, ui, store, unmatched_keys, posted_msgs, fg,
                   database_write_lock>>
    /\ UNCHANGED log_locks

\* _post_exchange_key, lines 274-285, called by the worker: the private key is
\* stored, under the lock.
NewContactStore(faults) ==
    /\ pc = "offer_write"
    /\ Release("worker")
    /\ Drop("worker")
    /\ \E store_ok \in {TRUE} \cup {FALSE : f \in faults \cap {"store_failed"}} :
        IF store_ok
        THEN /\ sent_keys' = [sent_keys EXCEPT ![Studied] = @ \cup
                    {[contact |-> locals["worker"].contact,
                      private_key |-> locals["worker"].private_key]}]
             /\ output_log' = "Exchange Key Post Success"
             /\ UNCHANGED cycle
        ELSE /\ output_log' = "Exchange Key Post Error - Unhandled Exception"
             /\ cycle' = [cycle EXCEPT !.failed = TRUE]
             /\ UNCHANGED sent_keys
    /\ new_contacts' = Tail(new_contacts)
    /\ pc' = IF Tail(new_contacts) = <<>> THEN "sleep" ELSE "auto_loop"
    /\ UNCHANGED <<connected, ui, received_keys, fernet_keys, sent_messages,
                   received_messages, unmatched_keys, relay, fg>>
    /\ UNCHANGED log_locks

worker == <<connected, pc, loops, cycle>>

\* _add_contact, lines 213-218: the prompt is submitted.
AddContactSubmit ==
    /\ fg = "idle"
    /\ \E k \in Clients \ ({Studied} \cup contacts[Studied]) :
            Hold("foreground", [NoLocals EXCEPT !.contact = k])
    /\ fg' = "add_lock"
    /\ output_log' = NoEntry
    /\ UNCHANGED <<worker, ui, store, relay, database_write_lock>>
    /\ UNCHANGED log_locks

\* The foreground loop enters a `with self.database_write_lock:` block.
ForegroundAcquire ==
    /\ fg \in DOMAIN WritePosition
    /\ Acquire("foreground")
    /\ fg' = WritePosition[fg]
    /\ output_log' = NoEntry
    /\ UNCHANGED <<worker, ui, store, relay, locals>>
    /\ UNCHANGED log_locks

\* _add_contact, lines 219-243: the contact is stored, under the lock.
AddContactStore(faults) ==
    /\ fg = "add_write"
    /\ Release("foreground")
    /\ Drop("foreground")
    /\ fg' = "idle"
    /\ \E store_ok \in {TRUE} \cup {FALSE : f \in faults \cap {"store_failed"}} :
        IF store_ok
        THEN /\ contacts' = [contacts EXCEPT ![Studied] = @ \cup {locals["foreground"].contact}]
             /\ output_log' = "Add Contact Success"
             /\ selected_contact' = IF selected_contact = None
                                    THEN locals["foreground"].contact
                                    ELSE selected_contact
        ELSE /\ output_log' = "Add Contact Error"
             /\ UNCHANGED <<contacts, selected_contact>>
    /\ UNCHANGED <<worker, input, store, relay>>
    /\ UNCHANGED log_locks

\* _post_exchange_key, lines 255-265, called by the foreground loop: the
\* connection flag is read.
SendExchangeKeyCheck ==
    /\ fg = "idle"
    /\ \E current_contact \in contacts[Studied] :
        IF ~connected
        THEN /\ output_log' = "Exchange Key Post Error - No Connection"
             /\ UNCHANGED <<fg, locals>>
        ELSE /\ Hold("foreground", [NoLocals EXCEPT !.contact = current_contact])
             /\ fg' = "key_post"
             /\ output_log' = NoEntry
    /\ UNCHANGED <<worker, ui, store, relay, database_write_lock>>
    /\ UNCHANGED log_locks

\* _post_exchange_key, lines 266-273, called by the foreground loop: the post.
SendExchangeKeyPost(faults) ==
    /\ fg = "key_post"
    /\ LET contact == locals["foreground"].contact
           private_exchange_key == GenerateKey(Studied)
           envelope == KeyEnvelope(Studied, contact, PublicKey(private_exchange_key),
                                   NoKey, Clock)
       IN  \E outcome \in PostOutcomes(RelayAcceptsKey(Studied), faults \ {"store_failed"}) :
            /\ posted_keys' = IF Accepted(outcome) THEN posted_keys \cup {envelope}
                                                   ELSE posted_keys
            /\ IF outcome = "ok"
               THEN /\ Hold("foreground", [locals["foreground"] EXCEPT
                                                !.private_key = private_exchange_key])
                    /\ fg' = "key_lock"
                    /\ output_log' = NoEntry
               ELSE /\ Drop("foreground")
                    /\ fg' = "idle"
                    /\ output_log' = PostErrorTitle(outcome)
    /\ UNCHANGED <<worker, ui, store, posted_msgs, database_write_lock>>
    /\ UNCHANGED log_locks

\* _post_exchange_key, lines 274-285, called by the foreground loop: the
\* private key is stored, under the lock.
SendExchangeKeyStore(faults) ==
    /\ fg = "key_write"
    /\ Release("foreground")
    /\ Drop("foreground")
    /\ fg' = "idle"
    /\ \E store_ok \in {TRUE} \cup {FALSE : f \in faults \cap {"store_failed"}} :
        IF store_ok
        THEN /\ sent_keys' = [sent_keys EXCEPT ![Studied] = @ \cup
                    {[contact |-> locals["foreground"].contact,
                      private_key |-> locals["foreground"].private_key]}]
             /\ output_log' = "Exchange Key Post Success"
        ELSE /\ output_log' = "Exchange Key Post Error - Unhandled Exception"
             /\ UNCHANGED sent_keys
    /\ UNCHANGED <<worker, ui, received_keys, fernet_keys, sent_messages,
                   received_messages, relay>>
    /\ UNCHANGED log_locks

\* _post_message, lines 309-321: the selection, the input and the connection
\* flag are read.
PostMessageCheck ==
    /\ fg = "idle"
    /\ selected_contact # None
    /\ input # ""
    /\ IF ~connected
       THEN /\ output_log' = "Message Post Error - No Connection"
            /\ UNCHANGED fg
       ELSE /\ fg' = "msg_post"
            /\ output_log' = NoEntry
    /\ UNCHANGED <<worker, ui, store, relay, locals, database_write_lock>>
    /\ UNCHANGED log_locks

\* _post_message, lines 322-336 and 355-385: the contact's keys are read and the
\* message is posted.
PostMessagePost(faults) ==
    /\ fg = "msg_post"
    /\ IF FernetKeysOf(Studied, selected_contact) = <<>>
       THEN /\ output_log' = "Message Post Error - No Encryption Key"
            /\ input' = RefusedInput(input)
            /\ fg' = "idle"
            /\ UNCHANGED <<posted_msgs, locals>>
       ELSE LET fernet_key == SendingKey(FernetKeysOf(Studied, selected_contact)).encoded_bytes
                token == Encrypt(fernet_key, input, Cardinality(MsgPostsOf(Studied)) + 1)
                envelope == MsgEnvelope(Studied, selected_contact, token)
            IN  \E outcome \in PostOutcomes(RelayAcceptsMsg(Studied), faults \ {"store_failed"}) :
                    /\ posted_msgs' = IF Accepted(outcome) THEN posted_msgs \cup {envelope}
                                                           ELSE posted_msgs
                    /\ UNCHANGED input
                    /\ IF outcome = "ok"
                       THEN /\ Hold("foreground", [NoLocals EXCEPT
                                    !.contact = selected_contact, !.plaintext = input,
                                    !.encrypted_text = token])
                            /\ fg' = "msg_lock"
                            /\ output_log' = NoEntry
                       ELSE /\ fg' = "idle"
                            /\ output_log' =
                                CASE TimedOut(outcome) -> "Message Post Error - Request Timed Out"
                                  [] outcome = "status" -> "Message Post Error - Bad Response"
                                  [] OTHER -> "Message Post Error - Unhandled Exception"
                            /\ UNCHANGED locals
    /\ UNCHANGED <<worker, contacts, selected_contact, store, posted_keys,
                   database_write_lock>>
    /\ UNCHANGED log_locks

\* _post_message, lines 337-354: the message is stored, under the lock.
PostMessageStore(faults) ==
    /\ fg = "msg_write"
    /\ Release("foreground")
    /\ Drop("foreground")
    /\ fg' = "idle"
    /\ \E store_ok \in {TRUE} \cup {FALSE : f \in faults \cap {"store_failed"}} :
        IF store_ok
        THEN /\ sent_messages' = [sent_messages EXCEPT ![Studied] = Append(@,
                    [contact |-> locals["foreground"].contact,
                     plaintext |-> locals["foreground"].plaintext,
                     encrypted_text |-> locals["foreground"].encrypted_text])]
             /\ input' = ""
             /\ output_log' = "Message Post Success"
        ELSE /\ output_log' = "Message Post Error - Unhandled Exception"
             /\ UNCHANGED <<sent_messages, input>>
    /\ UNCHANGED <<worker, contacts, selected_contact, received_keys, sent_keys,
                   fernet_keys, received_messages, relay>>
    /\ UNCHANGED log_locks

\* ------------------------------------------------ the locks, step by step
\* The handlers a third time, for the three locks alone: every request, every
\* wait for a lock and every block under a lock is a step, while what the
\* relay answers and what the store holds is any of what it may be.

\* Where a thread is.
Pos(thread) == IF thread = "worker" THEN pc ELSE fg

\* The thread goes on at position p; the other thread stays where it is.
Goto(thread, p) ==
    IF thread = "worker" THEN pc' = p /\ UNCHANGED fg
                         ELSE fg' = p /\ UNCHANGED pc

\* The locks a thread holds.
Held(thread) ==
    {l \in {"database", "message_log", "output_log"} :
        CASE l = "database" -> database_write_lock = thread
          [] l = "message_log" -> message_log_write_lock = thread
          [] l = "output_log" -> output_log_write_lock = thread}

\* A thread that leaves the block and keeps the lock.
ReleaseLogNever(thread) ==
    /\ output_log_write_lock = thread
    /\ UNCHANGED output_log_write_lock

\* `with self.output_log_write_lock:` is left.
ReleaseLog(thread) ==
    /\ output_log_write_lock = thread
    /\ output_log_write_lock' = None

\* The thread is about to add an entry to the output log, and goes on at
\* position next once it has.
Log(thread, entry, next) ==
    /\ Goto(thread, "output_log_lock")
    /\ Hold(thread, [locals[thread] EXCEPT !.title = entry, !.then = next])

\* `with self.output_log_write_lock:` is entered.
OutputLogAcquire(thread) ==
    /\ Pos(thread) = "output_log_lock"
    /\ output_log_write_lock = None
    /\ output_log_write_lock' = thread
    /\ Goto(thread, "output_log_add")
    /\ output_log' = NoEntry
    /\ UNCHANGED <<connected, ui, store, loops, relay, cycle, locals,
                   database_write_lock, message_log_write_lock>>

\* self.output_log.add_item(...), and the block is left.
OutputLogAdd(thread) ==
    /\ Pos(thread) = "output_log_add"
    /\ ReleaseLog(thread)
    /\ output_log' = locals[thread].title
    /\ Goto(thread, locals[thread].then)
    /\ Hold(thread, [locals[thread] EXCEPT !.title = None, !.then = None])
    /\ UNCHANGED <<connected, ui, store, loops, relay, cycle,
                   database_write_lock, message_log_write_lock>>

\* `with self.message_log_write_lock:` is entered.
MessageLogAcquire(thread) ==
    /\ Pos(thread) = "message_log_lock"
    /\ message_log_write_lock = None
    /\ message_log_write_lock' = thread
    /\ Goto(thread, "message_log_update")
    /\ output_log' = NoEntry
    /\ UNCHANGED <<connected, ui, store, loops, relay, cycle, locals,
                   database_write_lock, output_log_write_lock>>

\* self.message_log.update(), and the block is left: _fetch_handler returns to
\* the cycle, _post_message to the foreground loop.
MessageLogUpdate(thread) ==
    /\ Pos(thread) = "message_log_update"
    /\ message_log_write_lock = thread
    /\ message_log_write_lock' = None
    /\ Goto(thread, IF thread = "worker" THEN AfterFetch ELSE "idle")
    /\ output_log' = NoEntry
    /\ UNCHANGED <<connected, ui, store, loops, relay, cycle, locals,
                   database_write_lock, output_log_write_lock>>

\* `with self.database_write_lock:` is entered.
StoreAcquire(thread) ==
    /\ Pos(thread) \in DOMAIN WritePosition
    /\ Acquire(thread)
    /\ Goto(thread, WritePosition[Pos(thread)])
    /\ output_log' = NoEntry
    /\ UNCHANGED <<connected, ui, store, loops, relay, cycle, locals, log_locks>>

\* What is left alone by a step that moves one thread and touches no lock.
quiet == <<ui, store, loops, relay, cycle, database_write_lock, log_locks>>

\* _run_server_operations, lines 159-163: the head of the loop.
EnterIteration ==
    /\ pc = "loop"
    /\ pc' = IF ~connected THEN "ping"
             ELSE IF GetContactKeys(Studied) = {} THEN AfterFetch
             ELSE "fetch"
    /\ output_log' = NoEntry
    /\ UNCHANGED <<connected, fg, locals, quiet>>

\* _ping_server, lines 83-96: client.get returns or raises.
PingReturns ==
    /\ pc = "ping"
    /\ \E ok \in BOOLEAN :
        IF ok THEN Log("worker", "Connection Established", "ping_true")
              ELSE pc' = "loop" /\ UNCHANGED <<fg, locals>>
    /\ output_log' = NoEntry
    /\ UNCHANGED <<connected, quiet>>

\* _run_server_operations, lines 160-161: self.connected = True; continue
PingTrue ==
    /\ pc = "ping_true"
    /\ connected' = TRUE
    /\ pc' = "loop"
    /\ output_log' = NoEntry
    /\ UNCHANGED <<fg, locals, quiet>>

\* The entry and the next position of the worker when a request of the cycle
\* has failed: _fetch_handler and _key_response_handler log a rejected status
\* themselves, _run_server_operations the rest.
CycleFailure(outcome, next) ==
    CASE outcome = "status" -> Log("worker", "Bad Response", next)
      [] outcome = "timeout" -> Log("worker", "Server Connection Error", "demote")
      [] OTHER -> Log("worker", "Unhandled Server Error", "sleep")

\* _fetch_handler, line 103: fetch_data returns or raises.
FetchReturns ==
    /\ pc = "fetch"
    /\ \E outcome \in {"ok", "status", "timeout", "error"} :
        IF outcome = "ok" THEN pc' = "fetch_lock" /\ UNCHANGED <<fg, locals>>
        ELSE CycleFailure(outcome, AfterFetch)
    /\ output_log' = NoEntry
    /\ UNCHANGED <<connected, quiet>>

\* _fetch_handler, lines 104-106: store_fetched_data, and the block is left.
FetchWritten ==
    /\ pc = "fetch_write"
    /\ Release("worker")
    /\ \E store_ok \in BOOLEAN :
        IF store_ok THEN pc' = "message_log_lock" /\ UNCHANGED <<fg, locals>>
        ELSE CycleFailure("error", "sleep")
    /\ output_log' = NoEntry
    /\ UNCHANGED <<connected, ui, store, loops, relay, cycle, log_locks>>

\* _run_server_operations, line 173: self.connected = False
Demote ==
    /\ pc = "demote"
    /\ connected' = FALSE
    /\ pc' = "sleep"
    /\ output_log' = NoEntry
    /\ UNCHANGED <<fg, locals, quiet>>

\* _key_response_handler, line 117: the rows to answer, as many as the store
\* may hold.
RespondStart ==
    /\ pc = "respond"
    /\ \E n \in 0..MaxPriv :
        /\ unmatched_keys' = [i \in 1..n |-> i]
        /\ pc' = IF n = 0 THEN "auto" ELSE "respond_post"
    /\ output_log' = NoEntry
    /\ UNCHANGED <<connected, ui, store, new_contacts, relay, cycle, threads>>

\* _key_response_handler, lines 122-137: post_exchange_key returns or raises.
RespondReturns ==
    /\ pc = "respond_post"
    /\ \E outcome \in {"ok", "status", "timeout", "error"} :
        IF outcome = "ok" THEN pc' = "respond_lock" /\ UNCHANGED <<fg, locals>>
        ELSE CycleFailure(outcome, "respond_next")
    /\ output_log' = NoEntry
    /\ UNCHANGED <<connected, quiet>>

\* _key_response_handler, lines 138-149: the write, and the block is left.
RespondWritten ==
    /\ pc = "respond_write"
    /\ Release("worker")
    /\ \E store_ok \in BOOLEAN :
        IF store_ok THEN pc' = "respond_next" /\ UNCHANGED <<fg, locals>>
        ELSE CycleFailure("error", "sleep")
    /\ output_log' = NoEntry
    /\ UNCHANGED <<connected, ui, store, loops, relay, cycle, log_locks>>

\* _key_response_handler, line 118: the loop goes to its next row.
RespondNext ==
    /\ pc = "respond_next"
    /\ unmatched_keys' = Tail(unmatched_keys)
    /\ pc' = IF Tail(unmatched_keys) = <<>> THEN "auto" ELSE "respond_post"
    /\ output_log' = NoEntry
    /\ UNCHANGED <<connected, ui, store, new_contacts, relay, cycle, threads>>

\* _new_contact_key_handler, line 152: the contacts to offer to, any of the
\* contacts the store holds.
AutoStart ==
    /\ pc = "auto"
    /\ \E keyless \in SUBSET contacts[Studied] :
        /\ new_contacts' = SetToSeq(keyless)
        /\ pc' = IF keyless = {} THEN "sleep" ELSE "auto_loop"
    /\ output_log' = NoEntry
    /\ UNCHANGED <<connected, ui, store, unmatched_keys, relay, cycle, threads>>

\* _new_contact_key_handler, line 153: the loop goes to its next contact.
AutoNext ==
    /\ pc = "auto_next"
    /\ new_contacts' = Tail(new_contacts)
    /\ pc' = IF Tail(new_contacts) = <<>> THEN "sleep" ELSE "auto_loop"
    /\ output_log' = NoEntry
    /\ UNCHANGED <<connected, ui, store, unmatched_keys, relay, cycle, threads>>

\* Where _post_exchange_key is called from, and where it returns to.
CallsPostExchangeKey(thread) == IF thread = "worker" THEN "auto_loop" ELSE "idle"
AfterPostExchangeKey(thread) == IF thread = "worker" THEN "auto_next" ELSE "idle"

\* _post_exchange_key, lines 255-265: the connection flag is read.
PostExchangeKeyCheck(thread) ==
    /\ Pos(thread) = CallsPostExchangeKey(thread)
    /\ contacts[Studied] # {}
    /\ IF ~connected
       THEN Log(thread, "Exchange Key Post Error - No Connection",
                AfterPostExchangeKey(thread))
       ELSE Goto(thread, "key_post") /\ UNCHANGED locals
    /\ output_log' = NoEntry
    /\ UNCHANGED <<connected, quiet>>

\* _post_exchange_key, lines 266-273 and 286-306: post_exchange_key returns or
\* raises.
PostExchangeKeyReturns(thread) ==
    /\ Pos(thread) = "key_post"
    /\ \E outcome \in {"ok", "status", "timeout", "error"} :
        IF outcome = "ok" THEN Goto(thread, "key_lock") /\ UNCHANGED locals
        ELSE Log(thread, PostErrorTitle(outcome), AfterPostExchangeKey(thread))
    /\ output_log' = NoEntry
    /\ UNCHANGED <<connected, quiet>>

\* _post_exchange_key, lines 274-285: store_posted_exchange_key, and the block
\* is left.
PostExchangeKeyWritten(thread) ==
    /\ Pos(thread) = "key_write"
    /\ Release(thread)
    /\ \E store_ok \in BOOLEAN :
        Log(thread, IF store_ok THEN "Exchange Key Post Success"
                                ELSE PostErrorTitle("error"),
            AfterPostExchangeKey(thread))
    /\ output_log' = NoEntry
    /\ UNCHANGED <<connected, ui, store, loops, relay, cycle, log_locks>>

\* _add_contact, lines 220-243: the contact is stored, and the block is left.
AddContactWritten ==
    /\ fg = "add_write"
    /\ Release("foreground")
    /\ \E store_ok \in BOOLEAN :
        IF store_ok
        THEN /\ contacts' = [contacts EXCEPT ![Studied] = @ \cup {locals["foreground"].contact}]
             /\ Log("foreground", "Add Contact Success", "add_select")
        ELSE /\ Log("foreground", "Add Contact Error", "idle")
             /\ UNCHANGED contacts
    /\ output_log' = NoEntry
    /\ UNCHANGED <<connected, selected_contact, input, store, loops, relay, cycle,
                   log_locks>>

\* _add_contact, lines 233-234: the first contact is selected.
AddContactSelect ==
    /\ fg = "add_select"
    /\ IF selected_contact = None
       THEN /\ selected_contact' = locals["foreground"].contact
            /\ fg' = "set_contact"
       ELSE /\ fg' = "idle"
            /\ UNCHANGED selected_contact
    /\ Drop("foreground")
    /\ output_log' = NoEntry
    /\ UNCHANGED <<connected, pc, contacts, input, store, loops, relay, cycle,
                   database_write_lock, log_locks>>

\* _loop_iteration, State.SELECT_CONTACT, lines 421-422
SelectContact ==
    /\ fg = "idle"
    /\ \E current_contact \in contacts[Studied] :
        selected_contact' = current_contact
    /\ fg' = "set_contact"
    /\ output_log' = NoEntry
    /\ UNCHANGED <<connected, pc, contacts, input, store, loops, relay, cycle,
                   locals, database_write_lock, log_locks>>

\* self.message_log.set_contact(...), lines 235-236 and 423-424: the call
\* returns.
SetContact ==
    /\ fg = "set_contact"
    /\ fg' = "idle"
    /\ output_log' = NoEntry
    /\ UNCHANGED <<connected, pc, locals, quiet>>

\* _post_message, lines 309-321: the selection, the input and the connection
\* flag are read.
SendCheck ==
    /\ fg = "idle"
    /\ selected_contact # None
    /\ input # ""
    /\ IF ~connected
       THEN Log("foreground", "Message Post Error - No Connection", "idle")
       ELSE Goto("foreground", "msg_post") /\ UNCHANGED locals
    /\ output_log' = NoEntry
    /\ UNCHANGED <<connected, quiet>>

\* _post_message, lines 327-336 and 355-385: the contact has no key, or
\* post_message returns or raises.
SendReturns ==
    /\ fg = "msg_post"
    /\ \E outcome \in {"no_key", "ok", "status", "timeout", "error"} :
        IF outcome = "ok" THEN fg' = "msg_lock" /\ UNCHANGED <<pc, locals>>
        ELSE Log("foreground",
                 CASE outcome = "no_key" -> "Message Post Error - No Encryption Key"
                   [] outcome = "timeout" -> "Message Post Error - Request Timed Out"
                   [] outcome = "status" -> "Message Post Error - Bad Response"
                   [] OTHER -> "Message Post Error - Unhandled Exception",
                 "idle")
    /\ output_log' = NoEntry
    /\ UNCHANGED <<connected, quiet>>

\* _post_message, lines 337-346: store_posted_message, the block is left and
\* the input cleared.
SendWritten ==
    /\ fg = "msg_write"
    /\ Release("foreground")
    /\ \E store_ok \in BOOLEAN :
        IF store_ok
        THEN /\ input' = ""
             /\ Log("foreground", "Message Post Success", "message_log_lock")
        ELSE /\ Log("foreground", "Message Post Error - Unhandled Exception", "idle")
             /\ UNCHANGED input
    /\ output_log' = NoEntry
    /\ UNCHANGED <<connected, contacts, selected_contact, store, loops, relay, cycle,
                   log_locks>>

\* ------------------------------------------------------- the specifications
\* The handshake: the worker and the peer under every fault.
Next ==
    \/ Worker(Faults)
    \/ AddContact
    \/ SendExchangeKey(Faults)
    \/ \E p \in Clients \ {Studied} :
        \/ PeerFetch(p)
        \/ PeerRespond(p, Faults)
        \/ PeerOffer(p, Faults)

Spec == Init /\ [][Next]_vars

\* The worker is a thread of its own: it is always scheduled again.
FairSpec == Spec /\ WF_vars(Worker(Faults))

\* Messaging: the handshakes go through without a fault, and the user's sends
\* meet every fault.
MsgNext ==
    \/ Worker({})
    \/ AddContact
    \/ SendExchangeKey({})
    \/ TypeMessage
    \/ PostMessage(Faults)
    \/ \E p \in Clients \ {Studied} :
        \/ PeerFetch(p)
        \/ PeerRespond(p, {})
        \/ PeerOffer(p, {})
        \/ PeerPostMessage(p, {})

MsgSpec == Init /\ [][MsgNext]_vars

\* The engine stays connected: the one fault is a request the relay rejects
\* with an error status.
RetryFaults == {"status"}

\* A turn of the respond loop whose post the relay accepts.
AcceptedTurn == KeyResponseIter({}) /\ RelayAcceptsKey(Studied)

RetryNext ==
    \/ Worker(RetryFaults)
    \/ AddContact
    \/ \E p \in Clients \ {Studied} :
        \/ PeerFetch(p)
        \/ PeerRespond(p, {})
        \/ PeerOffer(p, {})

\* The worker is always scheduled again, and a relay that accepts again and
\* again does accept in the end.
RetrySpec ==
    /\ Init
    /\ [][RetryNext]_vars
    /\ WF_vars(Worker(RetryFaults))
    /\ SF_vars(AcceptedTurn)

\* The fault the threads meet when followed statement by statement: a request
\* that times out.
ThreadFaults == {"timeout"}

\* The two threads with every network call and store write a step of its own.
ThreadNext ==
    \/ PingServer
    \/ FetchCall(ThreadFaults)
    \/ WorkerAcquire
    \/ FetchStore(ThreadFaults)
    \/ KeyResponseStart
    \/ KeyResponsePost(ThreadFaults)
    \/ KeyResponseStore(ThreadFaults)
    \/ NewContactStart
    \/ NewContactPost(ThreadFaults)
    \/ NewContactStore(ThreadFaults)
    \/ Sleep
    \/ AddContactSubmit
    \/ ForegroundAcquire
    \/ AddContactStore(ThreadFaults)
    \/ SendExchangeKeyCheck
    \/ SendExchangeKeyPost(ThreadFaults)
    \/ SendExchangeKeyStore(ThreadFaults)
    \/ TypeMessage
    \/ PostMessageCheck
    \/ PostMessagePost(ThreadFaults)
    \/ PostMessageStore(ThreadFaults)
    \/ \E p \in Clients \ {Studied} :
        \/ PeerFetch(p)
        \/ PeerRespond(p, {})
        \/ PeerOffer(p, {})

ThreadSpec == Init /\ [][ThreadNext]_vars

\* The two threads with every request, every wait for a lock and every block
\* under a lock a step of its own.
LockNext ==
    \/ EnterIteration
    \/ PingReturns
    \/ PingTrue
    \/ FetchReturns
    \/ FetchWritten
    \/ Demote
    \/ RespondStart
    \/ RespondReturns
    \/ RespondWritten
    \/ RespondNext
    \/ AutoStart
    \/ AutoNext
    \/ Sleep
    \/ AddContactSubmit
    \/ AddContactWritten
    \/ AddContactSelect
    \/ SelectContact
    \/ SetContact
    \/ TypeMessage
    \/ SendCheck
    \/ SendReturns
    \/ SendWritten
    \/ \E thread \in Threads :
        \/ StoreAcquire(thread)
        \/ OutputLogAcquire(thread)
        \/ OutputLogAdd(thread)
        \/ MessageLogAcquire(thread)
        \/ MessageLogUpdate(thread)
        \/ PostExchangeKeyCheck(thread)
        \/ PostExchangeKeyReturns(thread)
        \/ PostExchangeKeyWritten(thread)

LockSpec == Init /\ [][LockNext]_vars

\* ----------------------------------------------------------------- claims
Rows(rows) == {rows[i] : i \in DOMAIN rows}

\* The signature is the sender's own over the element's data.
Genuine(e) == e.signature = Sign(e.sender_key, GetData(e))

\* The response without the elements whose signature is not genuine.
GenuinePart(response) ==
    [exchange_keys |-> SelectSeq(response.exchange_keys, Genuine),
     messages |-> SelectSeq(response.messages, Genuine)]

\* C1: whenever one client holds a key it derived as the initiator and the
\* other a key it derived as the responder from the same offer/response pair,
\* the two keys have identical bytes.
KeyAgreement ==
    \A c \in Clients, d \in Clients :
        \A a \in Rows(fernet_keys[c]), b \in Rows(fernet_keys[d]) :
            (/\ c # d
             /\ a.role = "initiator" /\ b.role = "responder"
             /\ a.contact = d /\ b.contact = c
             /\ a.offer = b.offer /\ a.response = b.response)
            => a.encoded_bytes = b.encoded_bytes

\* The studied client completed an offer the peer responded to, and the peer
\* completed one the studied client responded to.
HandshakesCompleted ==
    /\ \E a \in Rows(fernet_keys["A"]), b \in Rows(fernet_keys["B"]) :
            /\ a.role = "initiator" /\ b.role = "responder"
            /\ a.offer = b.offer /\ a.response = b.response
    /\ \E a \in Rows(fernet_keys["A"]), b \in Rows(fernet_keys["B"]) :
            /\ a.role = "responder" /\ b.role = "initiator"
            /\ a.offer = b.offer /\ a.response = b.response

\* Every row a fetch persisted is one its contact signed and posted.
PersistedWasSigned ==
    /\ \A r \in Rows(received_keys[Studied]) :
            \E e \in posted_keys :
                e.sender = r.contact /\ e.exchange_key = r.public_key
    /\ \A m \in received_messages[Studied] :
            \E e \in posted_msgs :
                e.sender = m.contact /\ e.encrypted_text = m.encrypted_text
    /\ \A k \in Rows(fernet_keys[Studied]) :
            k.role = "initiator" =>
                \E e \in posted_keys :
                    e.sender = k.contact /\ e.exchange_key = k.response

\* A fetch stores a response as it stores the response without its unverified
\* elements.
DroppedIsAbsent ==
    (pc = "loop" /\ connected) =>
        \A response \in BoundedResponses(Studied) :
            StoreFetchedData(Tables(Studied), response) =
                StoreFetchedData(Tables(Studied), GenuinePart(response))

\* A fetch step after which the cycle goes on adds no entry to the event log,
\* unless the relay answered with an error status.
FetchLogsNothing ==
    (pc = "loop" /\ pc' = "respond") => output_log' \in {NoEntry, "Bad Response"}

\* C2: an element whose signature does not verify under its claimed sender key
\* is dropped silently: no row is persisted from it, the rest of the response
\* is stored as if the element were absent, the fetch adds no event-log entry
\* and the cycle goes on to its next step.
UnverifiedDropped ==
    /\ [](PersistedWasSigned /\ DroppedIsAbsent)
    /\ [][FetchLogsNothing]_vars

\* The fetch of this cycle has stored a message, where the relay had a response
\* holding this message's element next to one whose signature is destroyed and
\* one of the client's own envelopes passed off as the contact's.
UnverifiedWasOffered ==
    /\ pc = "respond"
    /\ output_log = NoEntry
    /\ \E response \in BoundedResponses(Studied) :
        /\ Len(response.messages) = 2
        /\ ~Genuine(response.messages[1])
        /\ Genuine(response.messages[2])
        /\ [contact |-> response.messages[2].sender_key,
            encrypted_text |-> response.messages[2].encrypted_text]
                \in received_messages[Studied]
    /\ \E e \in KeyElements(Studied) : ~Genuine(e) /\ e.signature # Garbage(e.exchange_key)

\* C3: a pending offer yields at most one session key, whatever number of
\* responses naming it arrive: no client holds two keys completed from the
\* same offer, and a completed offer's private key is no longer pending.
OneKeyPerOffer ==
    \A c \in Clients :
        /\ \A i \in DOMAIN fernet_keys[c], j \in DOMAIN fernet_keys[c] :
                (/\ fernet_keys[c][i].role = "initiator"
                 /\ fernet_keys[c][j].role = "initiator"
                 /\ fernet_keys[c][i].offer = fernet_keys[c][j].offer) => i = j
        /\ \A k \in Rows(fernet_keys[c]) :
                k.role = "initiator" =>
                    \A p \in sent_keys[c] : PublicKey(p.private_key) # k.offer

\* The studied client completed an offer to which the relay holds two responses.
OfferAnsweredTwice ==
    \E k \in Rows(fernet_keys[Studied]) :
        /\ k.role = "initiator"
        /\ Cardinality({e \in posted_keys :
                /\ e.sender = k.contact /\ e.recipient = Studied
                /\ e.initial_key = k.offer}) >= 2

\* One step keeps every row, keeps a matched row matched and adds rows as
\* unmatched ones.
MatchedStep ==
    \A c \in Clients :
        /\ Len(received_keys'[c]) >= Len(received_keys[c])
        /\ \A i \in DOMAIN received_keys[c] :
                /\ received_keys'[c][i].contact = received_keys[c][i].contact
                /\ received_keys'[c][i].public_key = received_keys[c][i].public_key
                /\ received_keys[c][i].matched => received_keys'[c][i].matched
        /\ \A i \in DOMAIN received_keys'[c] \ DOMAIN received_keys[c] :
                ~received_keys'[c][i].matched

\* C4: the matched flag of a received exchange key starts false and, once
\* true, never returns to false.
MatchedOnce == [][MatchedStep]_vars

\* The respond step runs over an unmatched row while another row of the client
\* is matched already.
MatchedAndUnmatched ==
    /\ pc = "respond_loop"
    /\ \E r \in Rows(received_keys[Studied]) : r.matched
    /\ \E r \in Rows(received_keys[Studied]) : ~r.matched

\* The responses of c to the offer of a row that the relay has accepted.
ResponsesTo(c, row, posted) ==
    {e \in posted : /\ e.sender = c /\ e.recipient = row.contact
                    /\ e.initial_key = row.public_key}

\* C5 as claimed: for every inbound offer the relay has accepted at most one
\* response, whatever the outcomes of the earlier runs of the respond step.
OneResponsePerOffer ==
    \A r \in Rows(received_keys[Studied]) :
        Cardinality(ResponsesTo(Studied, r, posted_keys)) <= 1

\* No response is posted for a matched row, and a response after which the
\* loop goes on leaves its row matched.
RespondStep ==
    /\ \A c \in Clients : \A r \in Rows(received_keys[c]) :
            r.matched => ResponsesTo(c, r, posted_keys') = ResponsesTo(c, r, posted_keys)
    /\ \A i \in DOMAIN received_keys[Studied] :
            (/\ ResponsesTo(Studied, received_keys[Studied][i], posted_keys')
                    # ResponsesTo(Studied, received_keys[Studied][i], posted_keys)
             /\ pc = "respond_loop" /\ pc' \in {"respond_loop", "auto"})
            => received_keys'[Studied][i].matched

\* C5, amended: re-running the respond step posts no response for an offer
\* whose row is matched, and a response the client saw accepted and stored
\* marks the row in the same step.
NoResponseOnceMatched == [][RespondStep]_vars

\* The respond step has run again with every row matched and a response to
\* each offer at the relay.
RespondRanAgain ==
    /\ pc = "auto"
    /\ unmatched_keys = <<>>
    /\ received_keys[Studied] # <<>>
    /\ \A r \in Rows(received_keys[Studied]) :
            r.matched /\ Cardinality(ResponsesTo(Studied, r, posted_keys)) = 1
    /\ Len(fernet_keys[Studied]) >= 2

\* The offers the cycle posted to a contact.
OffersTo(k) == {o \in cycle.offers : o.to = k}

\* The cycle posted one offer to the contact and its private key is pending.
OneOfferRetained(k) ==
    /\ Cardinality(OffersTo(k)) = 1
    /\ \A o \in OffersTo(k) :
            \E p \in sent_keys[Studied] :
                p.contact = k /\ PublicKey(p.private_key) = o.key

\* C6 as claimed: a cycle that completes without error has posted exactly one
\* offer to every contact that had no session key when the cycle started.
OfferToEveryKeyless ==
    (pc = "sleep" /\ ~cycle.failed) =>
        \A k \in cycle.nokeys : OneOfferRetained(k)

\* C6, amended: a cycle that completes without error has posted exactly one
\* offer, with its private key retained, to every contact that had no session
\* key at its start and got none in its fetch and respond steps, and no offer
\* to any other contact.
OfferToStillKeyless ==
    (pc = "sleep" /\ ~cycle.failed) =>
        \A k \in contacts[Studied] :
            IF k \in cycle.nokeys /\ KeysOf(fernet_keys[Studied], k) = <<>>
            THEN OneOfferRetained(k)
            ELSE k \in cycle.nokeys => OffersTo(k) = {}

\* A cycle has completed without error with an offer posted.
CycleOffered ==
    /\ pc = "sleep" /\ ~cycle.failed
    /\ \E k \in cycle.nokeys :
        /\ KeysOf(fernet_keys[Studied], k) = <<>>
        /\ OneOfferRetained(k)

\* C7 as claimed: after a timeout in a cycle the engine is DISCONNECTED and the
\* cycle is over.
TimeoutDemotes ==
    cycle.timed_out => (~connected /\ pc = "sleep")

\* C8: the worker never terminates, and it always starts another iteration.
WorkerNeverStops ==
    /\ [](pc # "terminated")
    /\ []<>(pc = "loop")

\* An exception other than a timeout has left the cycle.
CycleFailed ==
    /\ pc = "sleep"
    /\ cycle.failed
    /\ output_log = "Unhandled Server Error"

\* The session keys of a contact that no other key of the contact is more
\* recent than.
MostRecentKeys(c, contact) ==
    {k \in Rows(fernet_keys[c]) :
        /\ k.contact = contact
        /\ \A o \in Rows(fernet_keys[c]) :
                o.contact = contact => o.timestamp <= k.timestamp}

SendStep ==
    \A e \in posted_msgs' \ posted_msgs :
        \E k \in MostRecentKeys(e.sender, e.recipient) :
            e.encrypted_text.key = B64Decode(k.encoded_bytes)

RefusedStep ==
    (/\ PostMessage(Faults)
     /\ KeysOf(fernet_keys[Studied], selected_contact) = <<>>)
    => /\ output_log' \in {"Message Post Error - No Encryption Key",
                           "Message Post Error - No Connection"}
       /\ posted_msgs' = posted_msgs
       /\ sent_messages' = sent_messages
       /\ input' = input

\* C10: a send to a contact with no session key is refused: the event log gets
\* a failure entry, nothing is posted, no message row is stored and the typed
\* input stays.
SendWithoutKeyRefused == [][RefusedStep]_vars

\* A send has just been refused for want of a key.
SendRefused ==
    /\ output_log = "Message Post Error - No Encryption Key"
    /\ connected
    /\ input # ""
    /\ KeysOf(fernet_keys[Studied], selected_contact) = <<>>

\* The posts of the studied client that the relay holds.
PostsOfStudied(keys, msgs) ==
    {e \in keys : e.sender = Studied} \cup {e \in msgs : e.sender = Studied}

\* C11 as claimed: no message and no exchange key is posted while the engine
\* is DISCONNECTED, however the steps of the foreground loop and of the worker
\* interleave.
NoPostWhileDisconnected ==
    [][PostsOfStudied(posted_keys', posted_msgs') # PostsOfStudied(posted_keys, posted_msgs)
            => connected]_vars

\* The entries _post_message adds when the post or the write after it fails.
MessagePostFailures ==
    {"Message Post Error - Request Timed Out", "Message Post Error - Bad Response",
     "Message Post Error - Unhandled Exception"}

\* A step of the user's send either succeeds, with the row appended for the
\* envelope the relay holds, or leaves the rows and the typed input as they
\* were; and no other step posts a message of the client or appends a row.
SendOutcomeStep ==
    /\ (PostMessage(Faults) /\ connected /\ FernetKeysOf(Studied, selected_contact) # <<>>)
        => \/ /\ output_log' = "Message Post Success"
              /\ Len(sent_messages'[Studied]) = Len(sent_messages[Studied]) + 1
           \/ /\ output_log' \in MessagePostFailures
              /\ sent_messages' = sent_messages
              /\ input' = input
    /\ sent_messages'[Studied] # sent_messages[Studied]
        => /\ PostMessage(Faults)
           /\ \E e \in posted_msgs' \ posted_msgs :
                /\ e.sender = Studied
                /\ sent_messages'[Studied] = Append(sent_messages[Studied],
                        [contact |-> e.recipient, plaintext |-> input,
                         encrypted_text |-> e.encrypted_text])
    /\ {e \in posted_msgs' : e.sender = Studied} # MsgPostsOf(Studied)
        => PostMessage(Faults)

\* C12: a sent Message row is persisted only once the relay accepted the post;
\* a failed post is reported, persists no row and keeps the typed input, and
\* neither thread sends again of its own accord.
RowOnlyAfterAcceptance == [][SendOutcomeStep]_vars

\* A post the relay accepted has been reported as failed: the relay holds the
\* envelope, no row is stored and the typed input is still there.
AcceptedSendFailed ==
    /\ output_log \in MessagePostFailures
    /\ input # ""
    /\ sent_messages[Studied] = <<>>
    /\ MsgPostsOf(Studied) # {}

\* C13 as claimed: a fetch response with a malformed element loses only that
\* element: the well-formed elements of the batch are persisted, and the cycle
\* goes on to the respond step.
MalformedElementDropped ==
    [][(cycle'.malformed /\ ~cycle.malformed)
            => (pc' = "respond" /\ ~cycle'.unstored /\ output_log' = NoEntry)]_vars

\* The fetch of this step brought nothing but responses to no pending offer.
UnrecognizedStep ==
    (cycle'.unrecognized /\ ~cycle.unrecognized)
        => /\ UNCHANGED <<store, relay, connected>>
           /\ pc' = AfterFetch
           /\ output_log' = NoEntry

\* The rows the respond step answers are offers a contact posted.
RowsAreOffers ==
    \A c \in Clients : \A row \in Rows(received_keys[c]) :
        \E e \in posted_keys :
            /\ e.sender = row.contact
            /\ e.recipient = c
            /\ e.exchange_key = row.public_key
            /\ e.initial_key = NoKey

\* C14: a response whose initial_key names no pending offer changes nothing:
\* no session key, no row matched or added for the respond step to answer, no
\* post, no error.
UnrecognizedResponseNoOp ==
    /\ [][UnrecognizedStep]_vars
    /\ []RowsAreOffers

\* A cycle has fetched the replay of a response whose offer was completed
\* before.
ReplayFetched ==
    /\ cycle.unrecognized
    /\ pc = "respond"
    /\ \E k \in Rows(fernet_keys[Studied]) : k.role = "initiator"

\* The step of the cycle each position of the worker belongs to: the fetch,
\* the responses to unmatched offers, the offers to new contacts, the sleep.
StepOf ==
    [loop |-> 1, fetch_lock |-> 1, fetch_write |-> 1,
     respond |-> 2, respond_loop |-> 2, respond_lock |-> 2, respond_write |-> 2,
     auto |-> 3, auto_loop |-> 3, offer_lock |-> 3, offer_write |-> 3,
     sleep |-> 4]

\* The exchange-key envelopes of the studied client that answer an offer.
ResponsesPosted(keys) == {e \in keys : e.sender = Studied /\ e.initial_key # NoKey}

\* Session keys by the role the studied client derived them in.
KeysDerivedAs(rows, role) == SelectSeq(rows, LAMBDA k : k.role = role)

CycleOrderStep ==
    /\ pc' # pc =>
            \/ pc = "sleep" /\ pc' = "loop"
            \/ StepOf[pc'] \in {StepOf[pc], StepOf[pc] + 1, StepOf["sleep"]}
    /\ StepOf[pc'] # StepOf[pc] =>
            /\ database_write_lock' # "worker"
            /\ locals'["worker"] = NoLocals
    /\ (\/ Len(received_keys'[Studied]) # Len(received_keys[Studied])
        \/ received_messages'[Studied] # received_messages[Studied]
        \/ KeysDerivedAs(fernet_keys'[Studied], "initiator")
                # KeysDerivedAs(fernet_keys[Studied], "initiator"))
            => pc = "fetch_write" /\ StepOf[pc'] \in {StepOf["respond"], StepOf["sleep"]}
    /\ ResponsesPosted(posted_keys') # ResponsesPosted(posted_keys)
            => pc = "respond_loop"
    /\ KeysDerivedAs(fernet_keys'[Studied], "responder")
                # KeysDerivedAs(fernet_keys[Studied], "responder")
            => pc = "respond_write"
    /\ cycle'.offers # cycle.offers /\ pc # "sleep" => pc = "auto_loop"
    /\ unmatched_keys' # unmatched_keys /\ unmatched_keys = <<>> => pc = "respond"
    /\ new_contacts' # new_contacts /\ new_contacts = <<>> => pc = "auto"

\* C15: within a cycle the worker goes through the fetch, the responses to
\* unmatched offers and the offers to new contacts in that order, and leaves a
\* step only with its requests answered, its writes made and the lock free.
CycleOrder == [][CycleOrderStep]_vars

\* The second step is in the middle of its write: the fetch has stored the
\* offer it answers, and the third step has not begun.
SecondStepWriting ==
    /\ pc = "respond_write"
    /\ database_write_lock = "worker"
    /\ locals["worker"].private_key # NoKey
    /\ new_contacts = <<>>

\* The entries the worker's handlers add for a failure that is no timeout.
FailureEntries ==
    {"Bad Response", "Unhandled Server Error",
     "Exchange Key Post Error - Bad Response",
     "Exchange Key Post Error - Unhandled Exception"}

FailureStep ==
    /\ (cycle'.failed /\ ~cycle.failed /\ ~cycle'.timed_out)
            => (output_log' \in FailureEntries /\ connected')
    /\ (pc = "sleep" /\ pc' = "loop" /\ cycle.failed /\ ~cycle.timed_out)
            => connected'

\* C16: a failure in a cycle that is no timeout is reported and leaves the
\* engine CONNECTED, so that the iteration after the sleep is a cycle.
FailureKeepsConnected ==
    /\ [][FailureStep]_vars
    /\ []((cycle.failed /\ ~cycle.timed_out) => connected)

\* A response that did not validate has ended the cycle, and the engine is
\* still CONNECTED.
MalformedReported ==
    /\ pc = "sleep"
    /\ cycle.malformed
    /\ connected
    /\ output_log = "Unhandled Server Error"

\* C17 as claimed: an iteration of the worker loop that probes the relay is
\* followed by a sleep of the poll interval: once the probe has returned, the
\* worker is at the sleep, not at the head of the loop again.
ProbeThenSleep == [][PingServer => pc' = "sleep"]_vars

\* A turn of the respond loop that leaves its row unmatched while other rows
\* wait to be answered.
FailedTurn ==
    /\ KeyResponseIter(Faults)
    /\ Len(unmatched_keys) > 1
    /\ ~received_keys'[Studied][Head(unmatched_keys)].matched

\* The loop goes on to the rows that wait.
LoopGoesOn ==
    /\ pc' = "respond_loop"
    /\ unmatched_keys' = Tail(unmatched_keys)

\* C18 as claimed: a posting failure for one offer does not keep the respond
\* step from the other unmatched offers.
FailureBlocksNoOffer == [][FailedTurn => LoopGoesOn]_vars

\* C18, amended: a post the relay rejects with an error status does not keep
\* the respond step from the other unmatched offers; a post that fails in any
\* other way ends the step, and the offers that wait are left for a later
\* cycle.
RejectionBlocksNoOffer ==
    [][FailedTurn =>
        IF output_log' = "Bad Response"
        THEN LoopGoesOn /\ connected' /\ UNCHANGED store
        ELSE /\ output_log' \in {"Server Connection Error", "Unhandled Server Error"}
             /\ pc' = "sleep"
             /\ unmatched_keys' = <<>>
             /\ UNCHANGED store]_vars

\* The response to one offer has been rejected and the loop is at the next.
RejectedAndOn ==
    /\ output_log = "Bad Response"
    /\ pc = "respond_loop"
    /\ cycle.failed
    /\ unmatched_keys # <<>>
    /\ \A i \in DOMAIN received_keys[Studied] : ~received_keys[Studied][i].matched

\* The ids of the rows of the studied client that are not matched.
UnmatchedIds == {i \in DOMAIN received_keys[Studied] : ~received_keys[Studied][i].matched}

\* A rejected response is logged and leaves the store as it was; and the
\* respond step of a cycle takes up every row that is not matched.
RejectedStep ==
    /\ (KeyResponseIter(RetryFaults) /\ output_log' = "Bad Response")
            => /\ Head(unmatched_keys) \in UnmatchedIds'
               /\ UNCHANGED <<store, connected>>
               /\ cycle'.failed
    /\ (pc = "respond" /\ pc' # "respond")
            => {unmatched_keys'[i] : i \in DOMAIN unmatched_keys'} = UnmatchedIds

\* Rows a contact's offers can make at the studied client.
MaxRows == MaxPriv

\* C19: a response the relay rejects with an error status is logged, the row
\* stays unmatched and no session key is stored, the next cycle takes the row
\* up again, and a row the relay goes on accepting responses for is matched in
\* the end.
RejectedResponseRetried ==
    /\ [][RejectedStep]_vars
    /\ \A i \in 1..MaxRows :
            (i \in UnmatchedIds) ~> (i \notin UnmatchedIds \/ ~RelayAcceptsKey(Studied))

\* The response to the one unmatched offer has been rejected by a relay that
\* accepts posts of the client: the row is unmatched, no key is stored, and
\* the step is over.
ResponseRejected ==
    /\ output_log = "Bad Response"
    /\ pc = "auto"
    /\ UnmatchedIds # {}
    /\ fernet_keys[Studied] = <<>>
    /\ RelayAcceptsKey(Studied)

\* The positions inside a `with self.database_write_lock:` block.
InsideWrite == {WritePosition[at] : at \in DOMAIN WritePosition}

\* The rows of the studied client in the Session Store.
StoreOfStudied ==
    <<contacts[Studied], received_keys[Studied], sent_keys[Studied],
      fernet_keys[Studied], sent_messages[Studied], received_messages[Studied]>>

\* The thread that is inside a store write holds the lock, so the two threads
\* are never inside one together.
WriterHoldsLock ==
    /\ pc \in InsideWrite => database_write_lock = "worker"
    /\ fg \in InsideWrite => database_write_lock = "foreground"
    /\ ~(pc \in InsideWrite /\ fg \in InsideWrite)

\* A step that changes the store is the step of the thread that holds the
\* lock, and leaves its block.
WriteStep ==
    StoreOfStudied' # StoreOfStudied
        => \/ /\ database_write_lock = "worker"
              /\ pc \in InsideWrite
              /\ pc' \notin InsideWrite
              /\ fg' = fg
           \/ /\ database_write_lock = "foreground"
              /\ fg \in InsideWrite
              /\ fg' \notin InsideWrite
              /\ pc' = pc

\* C20: every write to the Session Store is made by a thread that holds the
\* store write lock, and the foreground loop and the worker are never inside
\* a store write at the same time.
WritesUnderLock ==
    /\ []WriterHoldsLock
    /\ [][WriteStep]_vars

\* The worker is inside a store write while the foreground loop waits for
\* the lock.
ForegroundWaits ==
    /\ pc \in InsideWrite
    /\ fg \in DOMAIN WritePosition
    /\ database_write_lock = "worker"

\* The threads inside a mutation of the message log: update() under the lock
\* and set_contact() of the foreground loop.
InMessageLog ==
    {thread \in Threads : Pos(thread) \in {"message_log_update", "set_contact"}}

\* The threads inside a mutation of the output log.
InOutputLog == {thread \in Threads : Pos(thread) = "output_log_add"}

\* C21: the worker and the foreground loop are never inside a mutation of the
\* message log at the same time, nor inside a mutation of the output log at
\* the same time: each panel has a lock of its own that serialises its updates.
PanelUpdatesSerialised ==
    /\ Cardinality(InMessageLog) <= 1
    /\ Cardinality(InOutputLog) <= 1

\* The part of it that the code keeps: the output log is only mutated by the
\* holder of its lock, and message_log.update() only by the holder of the
\* lock of the message log.
LockedUpdatesSerialised ==
    /\ \A thread \in InOutputLog : output_log_write_lock = thread
    /\ Cardinality(InOutputLog) <= 1
    /\ \A thread \in Threads :
           Pos(thread) = "message_log_update" => message_log_write_lock = thread

\* The positions at which a thread is inside a request to the relay.
InCall == {"ping", "fetch", "respond_post", "key_post", "msg_post"}

\* C22: a thread inside a request to the relay holds none of the three locks,
\* so neither a slow relay nor a failed request keeps the other thread from the
\* store or the logs.
NoLockAcrossCall ==
    \A thread \in Threads : Pos(thread) \in InCall => Held(thread) = {}

\* The foreground loop is inside a request while the worker, whose own request
\* timed out, reports it under the lock of the output log.
CallBesideHolder ==
    /\ fg = "msg_post"
    /\ Held("foreground") = {}
    /\ Held("worker") = {"output_log"}
    /\ locals["worker"].title = "Server Connection Error"

\* The positions at which a thread waits for a lock.
Waiting == DOMAIN WritePosition \cup {"output_log_lock", "message_log_lock"}

\* The positions inside a block under a lock, and the lock of the block.
BlockLock ==
    [p \in {WritePosition[w] : w \in DOMAIN WritePosition} |-> "database"]
        @@ [p \in {"output_log_add"} |-> "output_log"]
        @@ [p \in {"message_log_update"} |-> "message_log"]

\* C25: a thread holds at most one of the three locks at a time; a thread that
\* waits for a lock holds none, and a thread that holds one is inside its
\* block, which it leaves without waiting: no cycle of waiting can form.
OneLockAtATime ==
    \A thread \in Threads :
        /\ Cardinality(Held(thread)) <= 1
        /\ Pos(thread) \in Waiting => Held(thread) = {}
        /\ Held(thread) # {} =>
               /\ Pos(thread) \in DOMAIN BlockLock
               /\ Held(thread) = {BlockLock[Pos(thread)]}

\* Both threads hold a lock at once, each one inside its own block.
BothHold ==
    /\ Held("worker") = {"database"}
    /\ pc = "fetch_write"
    /\ Held("foreground") = {"output_log"}
    /\ fg = "output_log_add"

\* The private keys pending for a contact, and the offers the relay holds for
\* it.
PendingTo(k) == {p \in sent_keys[Studied] : p.contact = k}
OffersPostedTo(k) ==
    {e \in posted_keys : e.sender = Studied /\ e.recipient = k /\ e.initial_key = NoKey}

\* The auto-exchange step takes its turn for contact k.
AutoExchangeTurn(k) ==
    /\ pc = "auto_loop"
    /\ new_contacts # <<>>
    /\ Head(new_contacts) = k
    /\ new_contacts' = Tail(new_contacts)

\* The contacts in a sequence.
Range(seq) == {seq[i] : i \in DOMAIN seq}

\* The auto-exchange step reads every contact without a session key, with or
\* without a pending offer.
OffersNotSuppressed ==
    (pc = "auto" /\ pc' # "auto") =>
        Range(new_contacts') =
            {k \in contacts[Studied] : KeysOf(fernet_keys[Studied], k) = <<>>}

\* C23 as claimed: every turn of the auto-exchange step for a contact without
\* a session key posts a new offer, and the pending private keys of the contact
\* grow by one.
PendingGrowsEveryCycle ==
    [][/\ OffersNotSuppressed
       /\ \A k \in contacts[Studied] :
            AutoExchangeTurn(k) =>
                /\ Cardinality(OffersPostedTo(k)') = Cardinality(OffersPostedTo(k)) + 1
                /\ Cardinality(PendingTo(k)') = Cardinality(PendingTo(k)) + 1]_vars

\* C23, amended: the auto-exchange step takes a turn for every contact without
\* a session key, whether or not an offer to it is pending, and the turn makes
\* a post with a key no earlier envelope carries; when the relay accepts the
\* post and the store write succeeds, the pending private keys of the contact
\* grow by exactly one, the key of the new offer, and when the post or the
\* write fails they stay as they are.
PendingGrowsPerAcceptedOffer ==
    [][/\ OffersNotSuppressed
       /\ \A k \in contacts[Studied] :
            AutoExchangeTurn(k) =>
                /\ KeysOf(fernet_keys[Studied], k) = <<>>
                /\ output_log' # "Exchange Key Post Error - No Connection"
                /\ \A e \in posted_keys' \ posted_keys :
                        /\ e \in OffersPostedTo(k)'
                        /\ \A old \in posted_keys : old.exchange_key # e.exchange_key
                /\ Cardinality(posted_keys' \ posted_keys) <= 1
                /\ IF output_log' = "Exchange Key Post Success"
                   THEN /\ Cardinality(posted_keys' \ posted_keys) = 1
                        /\ PendingTo(k) \subseteq PendingTo(k)'
                        /\ Cardinality(PendingTo(k)') = Cardinality(PendingTo(k)) + 1
                        /\ \A p \in PendingTo(k)' \ PendingTo(k) :
                             \E e \in posted_keys' \ posted_keys :
                                e.exchange_key = PublicKey(p.private_key)
                   ELSE PendingTo(k)' = PendingTo(k)]_vars

\* A second offer to a contact has been posted and retained while the first
\* was pending and the contact had no session key.
SecondOfferPending ==
    \E k \in contacts[Studied] :
        /\ KeysOf(fernet_keys[Studied], k) = <<>>
        /\ Cardinality(PendingTo(k)) = 2
        /\ Cardinality(OffersPostedTo(k)) = 2
        /\ output_log = "Exchange Key Post Success"

\* The rows this client has marked matched, and the session keys it derived as
\* responder.
MatchedRows ==
    {i \in DOMAIN received_keys[Studied] : received_keys[Studied][i].matched}
ResponderKeys ==
    SelectSeq(fernet_keys[Studied], LAMBDA k : k.role = "responder")

\* A row is matched exactly when the session key derived from it is stored,
\* there are as many responder keys as matched rows, and the relay holds the
\* response of every responder key.
MatchedIffKeyed ==
    /\ \A i \in DOMAIN received_keys[Studied] :
        LET row == received_keys[Studied][i]
        IN  row.matched <=>
                \E j \in DOMAIN ResponderKeys :
                    /\ ResponderKeys[j].contact = row.contact
                    /\ ResponderKeys[j].offer = row.public_key
    /\ Len(ResponderKeys) = Cardinality(MatchedRows)
    /\ \A j \in DOMAIN ResponderKeys :
        \E e \in posted_keys :
            /\ e.sender = Studied
            /\ e.recipient = ResponderKeys[j].contact
            /\ e.exchange_key = ResponderKeys[j].response
            /\ e.initial_key = ResponderKeys[j].offer

\* A step that marks a row or stores a responder key does both, for one row,
\* and is the step of the worker inside its block under the lock of the store.
MarkedAndKeyedTogether ==
    (MatchedRows' # MatchedRows \/ ResponderKeys' # ResponderKeys) =>
        /\ pc = "respond_write"
        /\ database_write_lock = "worker"
        /\ database_write_lock' = None
        /\ Cardinality(MatchedRows' \ MatchedRows) = 1
        /\ MatchedRows \subseteq MatchedRows'
        /\ Len(ResponderKeys') = Len(ResponderKeys) + 1

\* C24: on the responder side a row is matched if and only if the session key
\* derived from it is stored, the responder keys are as many as the matched
\* rows, each was stored after the relay accepted its response, and the mark
\* and the key are written in one step under the lock of the store.
MatchedWithKeyInOneWrite ==
    /\ []MatchedIffKeyed
    /\ [][MarkedAndKeyedTogether]_vars

\* The relay has accepted a response and the worker has written the mark and
\* the key, while another offer is stored and not yet answered.
RespondedAndStored ==
    /\ MatchedRows # {}
    /\ Len(ResponderKeys) = 1
    /\ database_write_lock = None
    /\ \E i \in DOMAIN received_keys[Studied] : ~received_keys[Studied][i].matched

\* The initial keys, timestamps and nonces an element can be labelled with.
InitialKeyLabels ==
    {NoKey} \cup {PublicKey(PrivOf(c, i)) : c \in Clients, i \in 1..MaxPriv}
TimestampLabels == 1..(2 * MaxPriv + 1)
NonceLabels == 1..MaxBatch

\* An exchange-key element with another initial key and timestamp, and a
\* message element with a nonce and a timestamp.
RelabelledKey(e, initial_key, timestamp) ==
    [e EXCEPT !.initial_key = initial_key, !.timestamp = timestamp]
LabelledMsg(e, nonce, timestamp) ==
    [kind |-> "msg", sender_key |-> e.sender_key, encrypted_text |-> e.encrypted_text,
     signature |-> e.signature, nonce |-> nonce, timestamp |-> timestamp]

\* The element carries the signature its sender made over its payload.
ValidlySigned(e) ==
    e.signature = Sign(e.sender_key, IF e.kind = "key" THEN e.exchange_key
                                                       ELSE e.encrypted_text)

\* C26: is_valid gives the same for two elements that differ only in
\* initial_key, timestamp or nonce, and an element that carries its sender's
\* signature over its payload (the exchange key of an exchange-key element, the
\* ciphertext of a message) verifies whatever initial key, timestamp or nonce
\* it is given: an offer relabelled as a response and a response relabelled as
\* an offer verify.
VerifyIgnoresLabels ==
    /\ \A e \in KeyElements(Studied) :
        \A k \in InitialKeyLabels, t \in TimestampLabels :
            /\ IsValid(RelabelledKey(e, k, t)) = IsValid(e)
            /\ ValidlySigned(e) => IsValid(RelabelledKey(e, k, t))
    /\ \A e \in MsgElements(Studied) :
        \A n \in NonceLabels, t \in TimestampLabels :
            /\ IsValid(LabelledMsg(e, n, t)) = IsValid(e)
            /\ ValidlySigned(e) => IsValid(LabelledMsg(e, n, t))
    /\ \A e \in KeyElements(Studied) \cup MsgElements(Studied) :
            ~ValidlySigned(e) => ~IsValid(e)

\* The relay holds an offer and a response of the contact for this client, and
\* each verifies under the other's label; it holds a message of the contact too.
OfferVerifiesAsResponse ==
    /\ \E e \in KeyElements(Studied) :
        /\ e.initial_key = NoKey
        /\ IsValid(e)
        /\ \E p \in sent_keys[Studied] :
            IsValid(RelabelledKey(e, PublicKey(p.private_key), e.timestamp))
    /\ \E e \in KeyElements(Studied) :
        /\ e.initial_key # NoKey
        /\ IsValid(e)
        /\ IsValid(RelabelledKey(e, NoKey, e.timestamp))
    /\ \E e \in MsgElements(Studied) : IsValid(e)
====
